---- MODULE Spec2Model ----
(***************************************************************************)
(* Model of the anomaly / trust scoring engine of CertChain                *)
(* (backend/src/enhanced-ai.ts, class EnhancedAIService).                  *)
(*                                                                         *)
(* Conventions                                                             *)
(*  - A JavaScript string is a sequence of one-character strings; the      *)
(*    characters outside ASCII that the code looks for are written by      *)
(*    their code point ("U+FFFD").                                         *)
(*  - A Date is its time value in minutes since the epoch (UTC), or NaN    *)
(*    for an Invalid Date.  The clock reads made inside one synchronous    *)
(*    function return the same minute.  Local time is UTC.                 *)
(*  - Scores (anomalyScore, trustIndex, a profile's trustScore) are IEEE   *)
(*    754 doubles, see Numbers below; a finding's confidence is a reduced  *)
(*    fraction <<numerator, denominator>>; the overall confidence is in    *)
(*    hundredths of a point.                                               *)
(*  - null and undefined, where a string is expected, are the value Null,  *)
(*    which no string equals; NaN is a number no time value equals.        *)
(***************************************************************************)
EXTENDS Integers, Sequences, FiniteSets, TLC

VARIABLES
    recentSubmissions,    \* EnhancedAIService.recentSubmissions: wallet -> stored submissions
    institutionProfiles,  \* EnhancedAIService.institutionProfiles: wallet -> profile or Null
    now,                  \* the system clock (Date.now()), minutes since the epoch
    log,                  \* history variable: per wallet, every completed detectAnomalies call
    injected,             \* history variable: the last scoring with an injected finding
    suspended,            \* the detectAnomalies calls waiting at their await, as begun
    rejected,             \* history variable: the submissions whose call raised an error
    legacySubmissions,    \* AIService.recentSubmissions: wallet -> stored submissions
    swept,                \* history variable: the last step, when it was a cleanup
    certificates,         \* the certificates table of the database: id -> row
    chain,                \* the certificates of the contract: id -> record
    response              \* history variable: the last answer of a certificate route

vars == <<recentSubmissions, institutionProfiles, now, log, injected, suspended, rejected,
          legacySubmissions, swept, certificates, chain, response>>

Null == <<"null">>
NaN == -(2^30)

(***************************************************************************)
(* Arithmetic helpers                                                      *)
(***************************************************************************)
Min(a, b) == IF a < b THEN a ELSE b
Max(a, b) == IF a > b THEN a ELSE b

RECURSIVE Gcd(_, _)
Gcd(a, b) == IF b = 0 THEN a ELSE Gcd(b, a % b)

\* the fraction n/d (n >= 0, d > 0) in lowest terms
Frac(n, d) == LET g == Gcd(n, d) IN <<n \div g, d \div g>>

FloorDiv(a, b) == IF a >= 0 THEN a \div b ELSE -((-a + b - 1) \div b)

(***************************************************************************)
(* Numbers.  anomalyScore and trustIndex are IEEE 754 doubles, computed    *)
(* with the rounding of every operation (round to nearest, ties to even,   *)
(* 53 significant bits).  Every double the scoring computes is a multiple  *)
(* of 2^-56 below 2^10 in magnitude: the literals are at least 2^-4, and   *)
(* sums and differences of such multiples are such multiples.  A double x  *)
(* is the integer x * 2^56, written <<h, m, l>> for h * 2^40 + m * 2^20 +  *)
(* l with 0 <= m, l < 2^20; h carries the sign.                            *)
(***************************************************************************)
Limb == 2^20

Carry(h, m, l) ==
    LET m0 == m + FloorDiv(l, Limb)
    IN  << h + FloorDiv(m0, Limb), m0 - Limb * FloorDiv(m0, Limb),
           l - Limb * FloorDiv(l, Limb) >>

BigNeg(x) == Carry(-x[1], -x[2], -x[3])
BigAdd(x, y) == Carry(x[1] + y[1], x[2] + y[2], x[3] + y[3])
BigLt(x, y) ==
    \/ x[1] < y[1]
    \/ x[1] = y[1] /\ x[2] < y[2]
    \/ x[1] = y[1] /\ x[2] = y[2] /\ x[3] < y[3]

BitLength(n) == IF n = 0 THEN 0 ELSE CHOOSE k \in 1..30 : 2^(k - 1) <= n /\ n < 2^k

\* the double nearest to x + r/q (x >= 0, 0 <= r < q), ties to the even significand
RoundMagnitude(x, r, q) ==
    LET shift == Max(0, 40 + BitLength(x[1]) - 53)
        grid  == 2^shift
        low   == x[3] % grid
        down  == <<x[1], x[2], x[3] - low>>
        up    == Carry(x[1], x[2], x[3] - low + grid)
        twice == 2 * (low * q + r)
        even  == IF grid = Limb THEN x[2] % 2 = 0
                                ELSE ((x[3] - low) \div grid) % 2 = 0
    IN  IF twice < grid * q THEN down
        ELSE IF twice > grid * q THEN up
        ELSE IF even THEN down ELSE up

DoubleRound(x) ==
    IF x[1] < 0 THEN BigNeg(RoundMagnitude(BigNeg(x), 0, 1)) ELSE RoundMagnitude(x, 0, 1)

\* the double a decimal literal p/q denotes (p >= 0, q > 0, p/q = 0 or >= 2^-4)
DoubleOf(p, q) ==
    LET h  == p * 2^16
        m  == (h % q) * Limb
        l  == (m % q) * Limb
    IN  RoundMagnitude(<<h \div q, m \div q, l \div q>>, l % q, q)

DoubleAdd(x, y) == DoubleRound(BigAdd(x, y))
DoubleSub(x, y) == DoubleRound(BigAdd(x, BigNeg(y)))
\* n * x for an integer n >= 0
DoubleTimes(n, x) == DoubleRound(Carry(n * x[1], n * x[2], n * x[3]))
DoubleLt(x, y) == BigLt(x, y)
DoubleGt(x, y) == BigLt(y, x)
DoubleMin(x, y) == IF BigLt(y, x) THEN y ELSE x
DoubleMax(x, y) == IF BigLt(x, y) THEN y ELSE x

(***************************************************************************)
(* Dates.  DaysFromCivil is the proleptic Gregorian day count used by      *)
(* ECMAScript's MakeDay; an out-of-range day rolls over into the next      *)
(* month, as Date.prototype.setFullYear does for 29 February.              *)
(***************************************************************************)
MinutesPerDay == 24 * 60

DaysFromCivil(y, m, d) ==
    LET yy  == IF m <= 2 THEN y - 1 ELSE y
        era == FloorDiv(yy, 400)
        yoe == yy - era * 400
        mp  == IF m > 2 THEN m - 3 ELSE m + 9
        doy == (153 * mp + 2) \div 5 + d - 1
        doe == yoe * 365 + yoe \div 4 - yoe \div 100 + doy
    IN  era * 146097 + doe - 719468

\* <<year, month, day>> of a day count
CivilFromDays(z0) ==
    LET z   == z0 + 719468
        era == FloorDiv(z, 146097)
        doe == z - era * 146097
        yoe == (doe - doe \div 1460 + doe \div 36524 - doe \div 146096) \div 365
        doy == doe - (365 * yoe + yoe \div 4 - yoe \div 100)
        mp  == (5 * doy + 2) \div 153
        d   == doy - (153 * mp + 2) \div 5 + 1
        m   == IF mp < 10 THEN mp + 3 ELSE mp - 9
        y   == yoe + era * 400 + (IF m <= 2 THEN 1 ELSE 0)
    IN  <<y, m, d>>

getFullYear(t) == CivilFromDays(FloorDiv(t, MinutesPerDay))[1]

\* Date.prototype.setFullYear(year): same month, day and time of day in `year`
setFullYear(t, year) ==
    LET days == FloorDiv(t, MinutesPerDay)
        c    == CivilFromDays(days)
    IN  DaysFromCivil(year, c[2], c[3]) * MinutesPerDay + (t - days * MinutesPerDay)

\* the relational operators on Dates: any comparison with an Invalid Date is false
DateGt(a, b) == a # NaN /\ b # NaN /\ a > b
DateLt(a, b) == a # NaN /\ b # NaN /\ a < b

Digits == [c \in {"0","1","2","3","4","5","6","7","8","9"} |->
             CASE c = "0" -> 0 [] c = "1" -> 1 [] c = "2" -> 2 [] c = "3" -> 3
               [] c = "4" -> 4 [] c = "5" -> 5 [] c = "6" -> 6 [] c = "7" -> 7
               [] c = "8" -> 8 [] c = "9" -> 9]

IsDigit(c) == c \in DOMAIN Digits

DaysInMonth(y, m) ==
    IF m = 2
      THEN (IF (y % 4 = 0 /\ y % 100 # 0) \/ y % 400 = 0 THEN 29 ELSE 28)
      ELSE (IF m \in {4, 6, 9, 11} THEN 30 ELSE 31)

\* new Date(string) for the date-only ISO form YYYY-MM-DD (midnight UTC).  A string
\* of any other shape, or naming no calendar day, gives an Invalid Date: the
\* constructor does not throw.
ParseDate(s) ==
    IF /\ Len(s) = 10
       /\ s[5] = "-" /\ s[8] = "-"
       /\ \A i \in {1, 2, 3, 4, 6, 7, 9, 10} : IsDigit(s[i])
    THEN LET y == Digits[s[1]] * 1000 + Digits[s[2]] * 100 + Digits[s[3]] * 10 + Digits[s[4]]
             m == Digits[s[6]] * 10 + Digits[s[7]]
             d == Digits[s[9]] * 10 + Digits[s[10]]
         IN  IF m \in 1..12 /\ d >= 1 /\ d <= DaysInMonth(y, m)
               THEN DaysFromCivil(y, m, d) * MinutesPerDay
               ELSE NaN
    ELSE NaN

(***************************************************************************)
(* Strings                                                                 *)
(***************************************************************************)
UpperToLower ==
    [c \in {"A","B","C","D","E","F","G","H","I","J","K","L","M",
            "N","O","P","Q","R","S","T","U","V","W","X","Y","Z"} |->
       CASE c = "A" -> "a" [] c = "B" -> "b" [] c = "C" -> "c" [] c = "D" -> "d"
         [] c = "E" -> "e" [] c = "F" -> "f" [] c = "G" -> "g" [] c = "H" -> "h"
         [] c = "I" -> "i" [] c = "J" -> "j" [] c = "K" -> "k" [] c = "L" -> "l"
         [] c = "M" -> "m" [] c = "N" -> "n" [] c = "O" -> "o" [] c = "P" -> "p"
         [] c = "Q" -> "q" [] c = "R" -> "r" [] c = "S" -> "s" [] c = "T" -> "t"
         [] c = "U" -> "u" [] c = "V" -> "v" [] c = "W" -> "w" [] c = "X" -> "x"
         [] c = "Y" -> "y" [] c = "Z" -> "z"]

\* String.prototype.toLowerCase
toLowerCase(s) ==
    [i \in 1..Len(s) |-> IF s[i] \in DOMAIN UpperToLower THEN UpperToLower[s[i]] ELSE s[i]]

\* String.prototype.includes
includes(s, p) ==
    \E i \in 1..(Len(s) - Len(p) + 1) : SubSeq(s, i, i + Len(p) - 1) = p

\* the characters the class \s matches, among those of the model
IsSpace(c) == c \in {" ", "\t", "\n"}

\* String.prototype.split(/\s+/): the pieces between maximal runs of white space;
\* a string that starts or ends with white space gives an empty first or last
\* piece, and the empty string gives one empty piece
split(s) ==
    LET starts   == {i \in 1..Len(s) : ~IsSpace(s[i]) /\ (i = 1 \/ IsSpace(s[i - 1]))}
        start(k) == CHOOSE p \in starts : Cardinality({q \in starts : q < p}) = k - 1
        end(p)   == CHOOSE e \in p..Len(s) :
                      /\ \A j \in p..e : ~IsSpace(s[j])
                      /\ (e = Len(s) \/ IsSpace(s[e + 1]))
        words    == [k \in 1..Cardinality(starts) |-> SubSeq(s, start(k), end(start(k)))]
    IN  IF s = <<>> THEN << <<>> >>
        ELSE (IF IsSpace(s[1]) THEN << <<>> >> ELSE <<>>)
             \o words
             \o (IF IsSpace(s[Len(s)]) THEN << <<>> >> ELSE <<>>)

SeqToSet(q) == {q[i] : i \in 1..Len(q)}

\* a value used as a condition: null, undefined and the empty string are false
Truthy(v) == v # Null /\ v # <<>>

(***************************************************************************)
(* Map (the two process-wide maps of the service)                          *)
(***************************************************************************)
EmptyMap == <<>>
MapHas(m, k) == k \in DOMAIN m
MapSet(m, k, v) == [x \in DOMAIN m \cup {k} |-> IF x = k THEN v ELSE m[x]]

(***************************************************************************)
(* Program constants                                                       *)
(***************************************************************************)
TimeWindow == 30        \* default timeWindow of detectAnomalies, in minutes
MaxSubmissions == 3     \* default maxSubmissions of detectAnomalies
MaxStored == 20         \* entries storeSubmission keeps per wallet
LegacyMaxStored == 10   \* entries AIService.storeSubmission keeps per wallet
DefaultMaxAge == 24 * 60  \* default maxAge of AIService.cleanup, in minutes

suspiciousPatterns ==
    << <<"c","o","p","y">>,
       <<"d","u","p","l","i","c","a","t","e">>,
       <<"f","a","k","e">>,
       <<"f","o","r","g","e","d">>,
       <<"c","o","u","n","t","e","r","f","e","i","t">>,
       <<"p","h","o","t","o","s","h","o","p">>,
       <<"e","d","i","t","e","d">>,
       <<"m","o","d","i","f","i","e","d">>,
       <<"t","e","m","p","l","a","t","e">>,
       <<"s","a","m","p","l","e">>,
       <<"e","x","a","m","p","l","e">>,
       <<"t","e","s","t">> >>

\* keys a plain object inherits under a lower-case name: reading one gives an
\* object, not a count, and the count kept for such a word is never a number
InheritedKeys == { <<"c","o","n","s","t","r","u","c","t","o","r">>,
                   <<"_","_","p","r","o","t","o","_","_">> }

Flag(type, severity, description, confidence) ==
    [type |-> type, severity |-> severity, description |-> description,
     confidence |-> confidence]

(***************************************************************************)
(* SubmissionHistory                                                       *)
(***************************************************************************)
\* getRecentSubmissions keeping the entry stamped exactly at the cutoff (>= for >)
getRecentSubmissionsInclusive(walletAddress, timeWindow) ==
    LET submissions == IF MapHas(recentSubmissions, walletAddress)
                         THEN recentSubmissions[walletAddress] ELSE <<>>
        cutoffTime  == now - timeWindow
    IN  SelectSeq(submissions, LAMBDA sub : sub.timestamp >= cutoffTime)

getRecentSubmissions(walletAddress, timeWindow) ==
    LET submissions == IF MapHas(recentSubmissions, walletAddress)
                         THEN recentSubmissions[walletAddress] ELSE <<>>
        cutoffTime  == now - timeWindow
    IN  SelectSeq(submissions, LAMBDA sub : DateGt(sub.timestamp, cutoffTime))

\* storeSubmission without the splice: nothing is ever discarded
storeSubmissionUntrimmed(submission) ==
    LET w == submission.walletAddress
    IN  Append(IF MapHas(recentSubmissions, w) THEN recentSubmissions[w] ELSE <<>>,
               submission)

\* storeSubmission discarding from the wrong end (splice(MaxStored)): the newest
\* entry is dropped once the array is full
storeSubmissionKeepOldest(submission) ==
    LET w        == submission.walletAddress
        existing == Append(IF MapHas(recentSubmissions, w) THEN recentSubmissions[w]
                                                           ELSE <<>>,
                           submission)
    IN  IF Len(existing) > MaxStored THEN SubSeq(existing, 1, MaxStored) ELSE existing

\* storeSubmission dropping the entry while another call of the wallet is waiting
storeSubmissionLosing(submission) ==
    LET w        == submission.walletAddress
        stored   == IF MapHas(recentSubmissions, w) THEN recentSubmissions[w] ELSE <<>>
        existing == Append(stored, submission)
        waiting  == {i \in 1..Len(suspended) : suspended[i].submission.walletAddress = w}
    IN  IF Cardinality(waiting) > 1 THEN stored
        ELSE IF Len(existing) > MaxStored
          THEN SubSeq(existing, Len(existing) - MaxStored + 1, Len(existing))
          ELSE existing

\* the array storeSubmission puts back into the map
storeSubmission(submission) ==
    LET w        == submission.walletAddress
        existing == Append(IF MapHas(recentSubmissions, w) THEN recentSubmissions[w]
                                                           ELSE <<>>,
                           submission)
    IN  IF Len(existing) > MaxStored
          THEN SubSeq(existing, Len(existing) - MaxStored + 1, Len(existing))
          ELSE existing

(***************************************************************************)
(* RuleEvaluators                                                          *)
(***************************************************************************)
\* checkRateLimit comparing the file with the latest recent submission only
checkRateLimitLatestOnly(submission, timeWindow, maxSubmissions) ==
    LET submissions == getRecentSubmissions(submission.walletAddress, timeWindow)
    IN  (IF Len(submissions) > maxSubmissions
           THEN << Flag("DUPLICATE", "HIGH",
                        <<"submissions from same wallet", Len(submissions), timeWindow>>,
                        Frac(9, 10)) >>
           ELSE <<>>)
        \o
        (IF /\ submissions # <<>>
            /\ submissions[Len(submissions)].fileHash = submission.fileHash
           THEN << Flag("DUPLICATE", "CRITICAL",
                        <<"Identical file submitted previously">>, Frac(1, 1)) >>
           ELSE <<>>)

checkRateLimit(submission, timeWindow, maxSubmissions) ==
    LET submissions == getRecentSubmissions(submission.walletAddress, timeWindow)
    IN  (IF Len(submissions) > maxSubmissions
           THEN << Flag("DUPLICATE", "HIGH",
                        <<"submissions from same wallet", Len(submissions), timeWindow>>,
                        Frac(9, 10)) >>
           ELSE <<>>)
        \o
        (IF \E i \in 1..Len(submissions) : submissions[i].fileHash = submission.fileHash
           THEN << Flag("DUPLICATE", "CRITICAL",
                        <<"Identical file submitted previously">>, Frac(1, 1)) >>
           ELSE <<>>)

calculateNameSimilarity(name1, name2) ==
    LET set1         == SeqToSet(split(toLowerCase(name1)))
        set2         == SeqToSet(split(toLowerCase(name2)))
        intersection == {x \in set1 : x \in set2}
        union        == set1 \cup set2
    IN  Frac(Cardinality(intersection), Cardinality(union))

checkNameConsistency(submission) ==
    IF Truthy(submission.extractedInfo.studentName) /\ Truthy(submission.studentName)
    THEN LET similarity == calculateNameSimilarity(submission.extractedInfo.studentName,
                                                   submission.studentName)
         IN  IF similarity[1] * 10 < 6 * similarity[2]
               THEN << Flag("INCONSISTENCY", "HIGH",
                            <<"Name mismatch", submission.extractedInfo.studentName,
                              submission.studentName>>,
                            Frac(similarity[2] - similarity[1], similarity[2])) >>
               ELSE <<>>
    ELSE <<>>

\* checkOCRQuality reporting a low confidence from 70 down
checkOCRQualityInclusive(ocrResult) ==
    (IF ocrResult.confidence <= 70
       THEN << Flag("FORMAT", "MEDIUM", <<"Low OCR confidence", ocrResult.confidence>>,
                    Frac(70 - ocrResult.confidence, 70)) >>
       ELSE <<>>)
    \o
    (IF \/ includes(ocrResult.text, <<"U+00EF", "U+00BF", "U+00BD">>)
        \/ includes(ocrResult.text, <<"U+FFFD">>)
       THEN << Flag("TAMPERING", "MEDIUM", <<"Text encoding issues detected">>,
                    Frac(7, 10)) >>
       ELSE <<>>)

checkOCRQuality(ocrResult) ==
    (IF ocrResult.confidence < 70
       THEN << Flag("FORMAT", "MEDIUM", <<"Low OCR confidence", ocrResult.confidence>>,
                    Frac(70 - ocrResult.confidence, 70)) >>
       ELSE <<>>)
    \o
    (IF \/ includes(ocrResult.text, <<"U+00EF", "U+00BF", "U+00BD">>)
        \/ includes(ocrResult.text, <<"U+FFFD">>)
       THEN << Flag("TAMPERING", "MEDIUM", <<"Text encoding issues detected">>,
                    Frac(7, 10)) >>
       ELSE <<>>)

\* the distinct members of a sequence, in the order of their first occurrence
RECURSIVE FirstOccurrences(_, _)
FirstOccurrences(q, seen) ==
    IF q = <<>> THEN <<>>
    ELSE IF Head(q) \in seen THEN FirstOccurrences(Tail(q), seen)
    ELSE <<Head(q)>> \o FirstOccurrences(Tail(q), seen \cup {Head(q)})

\* the concatenation of pushed[1], ..., pushed[Len(pushed)]: forEach with the
\* elements pushed for each item
Flatten(pushed) ==
    LET acc[i \in 0..Len(pushed)] == IF i = 0 THEN <<>> ELSE acc[i - 1] \o pushed[i]
    IN  acc[Len(pushed)]

\* The word counts are kept in a plain object whose keys are the lower-cased words
\* longer than 3; Object.entries lists them in insertion order (the texts of the
\* model hold no word that is a canonical array index, which would come first).
checkForgeryPatterns(text) ==
    LET lowerText == toLowerCase(text)
        words     == split(text)
        counted   == SelectSeq([i \in 1..Len(words) |-> toLowerCase(words[i])],
                               LAMBDA w : Len(w) > 3)
        keys      == FirstOccurrences(counted, {})
        count(w)  == Cardinality({i \in 1..Len(counted) : counted[i] = w})
    IN  Flatten([n \in 1..Len(suspiciousPatterns) |->
                LET pattern == suspiciousPatterns[n] IN
                  IF includes(lowerText, pattern)
                    THEN << Flag("FRAUD", "HIGH", <<"Suspicious keyword detected", pattern>>,
                                 Frac(8, 10)) >>
                    ELSE <<>>])
        \o
        Flatten([n \in 1..Len(keys) |->
                LET word == keys[n] IN
                  IF word \notin InheritedKeys /\ count(word) > 5 /\ Len(word) > 4
                    THEN << Flag("SUSPICIOUS_PATTERN", "MEDIUM",
                                 <<"Word repeated", word, count(word)>>,
                                 IF count(word) >= 9 THEN Frac(9, 10)
                                                     ELSE Frac(count(word), 10)) >>
                    ELSE <<>>])

\* checkDataCompleteness reporting the recommended fields when any is missing
checkDataCompletenessAnyRecommended(extractedInfo) ==
    LET requiredFields     == <<"studentName", "institution">>
        recommendedFields  == <<"course", "issueDate">>
        missingRecommended == SelectSeq(recommendedFields,
                                        LAMBDA field : ~Truthy(extractedInfo[field]))
    IN  Flatten([n \in 1..Len(requiredFields) |->
                LET field == requiredFields[n] IN
                  IF ~Truthy(extractedInfo[field])
                    THEN << Flag("FORMAT", "MEDIUM", <<"Missing required field", field>>,
                                 Frac(7, 10)) >>
                    ELSE <<>>])
        \o
        (IF Len(missingRecommended) > 0
           THEN << Flag("FORMAT", "LOW",
                        <<"Missing recommended fields", missingRecommended>>, Frac(5, 10)) >>
           ELSE <<>>)

checkDataCompleteness(extractedInfo) ==
    LET requiredFields     == <<"studentName", "institution">>
        recommendedFields  == <<"course", "issueDate">>
        missingRecommended == SelectSeq(recommendedFields,
                                        LAMBDA field : ~Truthy(extractedInfo[field]))
    IN  Flatten([n \in 1..Len(requiredFields) |->
                LET field == requiredFields[n] IN
                  IF ~Truthy(extractedInfo[field])
                    THEN << Flag("FORMAT", "MEDIUM", <<"Missing required field", field>>,
                                 Frac(7, 10)) >>
                    ELSE <<>>])
        \o
        (IF Len(missingRecommended) > 1
           THEN << Flag("FORMAT", "LOW",
                        <<"Missing recommended fields", missingRecommended>>, Frac(5, 10)) >>
           ELSE <<>>)

\* checkTemporalConsistency taking fifty years to be 50 * 365 days
checkTemporalConsistencyFixedYears(extractedInfo) ==
    IF Truthy(extractedInfo.issueDate)
    THEN LET issueDate     == ParseDate(extractedInfo.issueDate)
             fiftyYearsAgo == now - 50 * 365 * MinutesPerDay
         IN  (IF DateGt(issueDate, now)
                THEN << Flag("INCONSISTENCY", "HIGH",
                             <<"Certificate issue date is in the future">>, Frac(9, 10)) >>
                ELSE <<>>)
             \o
             (IF DateLt(issueDate, fiftyYearsAgo)
                THEN << Flag("INCONSISTENCY", "LOW",
                             <<"Certificate issue date is unusually old">>, Frac(6, 10)) >>
                ELSE <<>>)
    ELSE <<>>

\* new Date(string) does not throw, so the catch clause (lines 295-302, "Invalid
\* date format") is never entered for a string: an unparseable date is an Invalid
\* Date and both comparisons with it are false.
checkTemporalConsistency(extractedInfo) ==
    IF Truthy(extractedInfo.issueDate)
    THEN LET issueDate     == ParseDate(extractedInfo.issueDate)
             fiftyYearsAgo == setFullYear(now, getFullYear(now) - 50)
         IN  (IF DateGt(issueDate, now)
                THEN << Flag("INCONSISTENCY", "HIGH",
                             <<"Certificate issue date is in the future">>, Frac(9, 10)) >>
                ELSE <<>>)
             \o
             (IF DateLt(issueDate, fiftyYearsAgo)
                THEN << Flag("INCONSISTENCY", "LOW",
                             <<"Certificate issue date is unusually old">>, Frac(6, 10)) >>
                ELSE <<>>)
    ELSE <<>>

\* checkInstitutionConsistency comparing the two names as written
checkInstitutionConsistencyCaseSensitive(submission) ==
    IF Truthy(submission.extractedInfo.institution)
    THEN LET profile == institutionProfiles[submission.issuerWallet]
         IN  IF /\ MapHas(institutionProfiles, submission.issuerWallet)
                /\ profile.institutionName # submission.extractedInfo.institution
               THEN << Flag("FRAUD", "CRITICAL",
                            <<"Issuer wallet authorized for", profile.institutionName,
                              submission.extractedInfo.institution>>,
                            Frac(95, 100)) >>
               ELSE <<>>
    ELSE <<>>

checkInstitutionConsistency(submission) ==
    IF Truthy(submission.extractedInfo.institution)
    THEN LET profile == institutionProfiles[submission.issuerWallet]
         IN  IF /\ MapHas(institutionProfiles, submission.issuerWallet)
                /\ toLowerCase(profile.institutionName)
                     # toLowerCase(submission.extractedInfo.institution)
               THEN << Flag("FRAUD", "CRITICAL",
                            <<"Issuer wallet authorized for", profile.institutionName,
                              submission.extractedInfo.institution>>,
                            Frac(95, 100)) >>
               ELSE <<>>
    ELSE <<>>

checkDocumentFormat(ocrResult) ==
    LET text           == ocrResult.text
        lower          == toLowerCase(text)
        hasHeader      == \/ includes(lower, <<"c","e","r","t","i","f","i","c","a","t","e">>)
                          \/ includes(lower, <<"d","i","p","l","o","m","a">>)
                          \/ includes(lower, <<"d","e","g","r","e","e">>)
        hasName        == \/ includes(lower, <<"n","a","m","e">>)
                          \/ includes(lower, <<"s","t","u","d","e","n","t">>)
                          \/ includes(lower, <<"r","e","c","i","p","i","e","n","t">>)
        hasInstitution == \/ includes(lower, <<"u","n","i","v","e","r","s","i","t","y">>)
                          \/ includes(lower, <<"c","o","l","l","e","g","e">>)
                          \/ includes(lower, <<"i","n","s","t","i","t","u","t","e">>)
                          \/ includes(lower, <<"s","c","h","o","o","l">>)
    IN  (IF Len(text) < 100
           THEN << Flag("FORMAT", "MEDIUM", <<"Certificate text is unusually short">>,
                        Frac(6, 10)) >>
           ELSE IF Len(text) > 10000
             THEN << Flag("FORMAT", "LOW", <<"Certificate text is unusually long">>,
                          Frac(4, 10)) >>
             ELSE <<>>)
        \o
        (IF ~hasHeader \/ ~hasName \/ ~hasInstitution
           THEN << Flag("FORMAT", "MEDIUM",
                        <<"Document does not follow standard certificate format">>,
                        Frac(7, 10)) >>
           ELSE <<>>)

(***************************************************************************)
(* Inputs of the model                                                     *)
(***************************************************************************)
MaxCalls == 22          \* detectAnomalies calls explored for the first wallet
MaxOtherCalls == 1      \* detectAnomalies calls explored for every other wallet
MaxSame == 2            \* submissions of the re-submitted file explored per wallet
MaxBackdated == 1       \* submissions per wallet whose timestamp is before the clock
MaxTicks == 2           \* clock advances explored
MaxVaried == 2          \* calls of a run during which wallet, file, timestamp and clock vary
TickStep == 15          \* one clock advance, in minutes
MaxScoreCalls == 2      \* detectAnomalies calls explored for one document
MaxEvalCalls == 2       \* detectAnomalies calls explored for one document of EvalSubmissions
MaxFindings == 15       \* findings of one result explored for the overall confidence
MaxBegun == 22          \* overlapping detectAnomalies calls explored for the first wallet
MaxSuspended == 2       \* detectAnomalies calls waiting at their await at one time
MaxOverlapped == 3      \* calls of a run, at its start, that may overlap
MaxMalformedCalls == 2  \* detectAnomalies calls explored for one document of MalformedSubmissions
MaxPatternCalls == 2    \* detectAnomalies calls explored for one document of PatternSubmissions
MaxWeightCalls == 2     \* detectAnomalies calls explored for the documents of WeightSubmissions
MaxFrameCalls == 4      \* detectAnomalies calls explored together with registrations
MaxLegacyCalls == 3     \* AIService.detectAnomalies calls explored
MaxLegacyTicks == 3     \* clock advances explored between AIService calls
MaxSweeps == 2          \* AIService.cleanup calls explored
MaxIssueCalls == 2      \* POST /api/issue requests explored that reach the anomaly detection

\* the clock at start: 2026-11-06T23:45Z
T0 == DaysFromCivil(2026, 11, 6) * MinutesPerDay + 23 * 60 + 45

FirstWallet == "0xA"
Wallets == {FirstWallet, "0xB"}
IssuerWallet == "0xI"

NameJohn == <<"J","o","h","n"," ","S","m","i","t","h">>
NameJane == <<"J","a","n","e"," ","D","o","e">>
InstMIT == <<"M","I","T">>
InstStanford == <<"S","t","a","n","f","o","r","d">>
CourseCS == <<"C","S">>

\* "Certificate of Degree awarded by Springfield University to student John Smith for the course Computer Science with grade A in June 2020"
TextClean ==
    <<"C","e","r","t","i","f","i","c","a","t","e"," ","o","f"," ","D","e","g",
      "r","e","e"," ","a","w","a","r","d","e","d"," ","b","y"," ","S","p","r",
      "i","n","g","f","i","e","l","d"," ","U","n","i","v","e","r","s","i","t",
      "y"," ","t","o"," ","s","t","u","d","e","n","t"," ","J","o","h","n"," ",
      "S","m","i","t","h"," ","f","o","r"," ","t","h","e"," ","c","o","u","r",
      "s","e"," ","C","o","m","p","u","t","e","r"," ","S","c","i","e","n","c",
      "e"," ","w","i","t","h"," ","g","r","a","d","e"," ","A"," ","i","n"," ",
      "J","u","n","e"," ","2","0","2","0">>

\* "FAKE sample copy of a forged diploma"
TextForged ==
    <<"F","A","K","E"," ","s","a","m","p","l","e"," ","c","o","p","y"," ","o",
      "f"," ","a"," ","f","o","r","g","e","d"," ","d","i","p","l","o","m","a">>

\* "Certificate: student, university"
TextShort ==
    <<"C","e","r","t","i","f","i","c","a","t","e",":"," ","s","t","u","d","e",
      "n","t",","," ","u","n","i","v","e","r","s","i","t","y">>

DateTomorrow == <<"2","0","2","6","-","1","1","-","0","7">>
DateFiftyYears == <<"1","9","7","6","-","1","1","-","0","7">>
DateFuture == <<"2","0","9","9","-","0","1","-","0","1">>
DateOld == <<"1","9","5","0","-","0","1","-","0","1">>
DateRecent == <<"2","0","2","0","-","0","6","-","1","5">>
DateGarbage == <<"n","o","t","-","a","-","d","a","t","e">>

IssueDates == {Null, DateTomorrow, DateFiftyYears, DateFuture, DateOld, DateRecent,
               DateGarbage}

Submission(walletAddress, fileHash, timestamp, studentName, text, confidence, institution, issueDate) ==
    [studentName   |-> NameJohn,
     walletAddress |-> walletAddress,
     issuerWallet  |-> IssuerWallet,
     timestamp     |-> timestamp,
     ocrResult     |-> [text |-> text, confidence |-> confidence],
     extractedInfo |-> [studentName |-> studentName, institution |-> institution,
                        course |-> CourseCS, issueDate |-> issueDate],
     fileHash      |-> fileHash]

\* the submissions of the history machine differ in wallet, file and timestamp only
HistSubmission(w, h, ts) ==
    Submission(w, h, ts, NameJohn, TextShort, 95, InstMIT, Null)

\* the submissions of the scoring machine, all stamped with the clock at start: a
\* consistent and an inconsistent document, with every issue date
ScoreSubmissions ==
    {Submission(FirstWallet, 0, T0, NameJohn, TextClean, 95, InstMIT, d) : d \in IssueDates}
    \cup
    {Submission(FirstWallet, 0, T0, NameJane, TextForged, 60, InstStanford, d) : d \in IssueDates}

Texts == {TextClean, TextForged, TextShort}

\* word, then n - 1 times a space and word
RECURSIVE Repeat(_, _)
Repeat(word, n) == IF n <= 1 THEN word ELSE word \o <<" ">> \o Repeat(word, n - 1)

WordAlpha == <<"a","l","p","h","a">>
WordBeta == <<"b","e","t","a">>
WordGammaTwice == <<"G","a","m","m","a"," ","G","A","M","M","A">>
WordSample == <<"S","a","m","p","l","e">>
WordAlphaDelta == <<"a","l","p","h","a"," ","d","e","l","t","a">>
WordConstructor == <<"c","o","n","s","t","r","u","c","t","o","r">>

\* "photocopy of an EDITED test, tested"
TextKeywords ==
    <<"p","h","o","t","o","c","o","p","y"," ","o","f"," ","a","n"," ","E","D","I","T","E","D"," ","t","e","s","t",","," ","t","e","s","t","e","d">>

\* "diploma" and the replacement character
TextEncoding == <<"d","i","p","l","o","m","a"," ","U+FFFD">>

\* the texts of the pattern machine: a word of five letters five, six and ten
\* times (in either case), a word of four letters six times, a keyword six times,
\* two words six times each, the word "constructor" six times, keywords inside
\* other words and in capitals, and a text with the replacement character
PatternTexts ==
    {Repeat(WordAlpha, 5), Repeat(WordAlpha, 6), Repeat(WordBeta, 6),
     Repeat(WordGammaTwice, 5), Repeat(WordSample, 6), Repeat(WordAlphaDelta, 6),
     Repeat(WordConstructor, 6), TextKeywords, TextEncoding}

\* TextClean followed by " copy"
TextCleanCopy == TextClean \o <<" ","c","o","p","y">>

AllTexts == Texts \cup PatternTexts \cup {TextCleanCopy}

\* the OCR confidences of the model (Tesseract reports 0..100): both sides of 70
\* and of 90, and the ends of the range
Confidences == {0, 60, 69, 70, 90, 91, 95, 100}

NameJohnUpper == <<"J","O","H","N"," ","S","M","I","T","H">>
NameJohnDoe == <<"J","o","h","n"," ","D","o","e">>
NameJohnAdam == <<"J","o","h","n"," ","A","d","a","m"," ","S","m","i","t","h">>
NameJohnTabbed == <<"J","o","h","n"," ","\t","S","m","i","t","h">>
NameFirst == <<"J","o","h","n">>
NameFirstSpaced == <<"J","o","h","n"," ">>
NameCosta == <<"A","n","a"," ","M","a","r","i","a"," ","S","i","l","v","a"," ","C","o","s","t","a">>
NameSouza == <<"A","n","a"," ","M","a","r","i","a"," ","S","i","l","v","a"," ","S","o","u","z","a">>
InstMITLower == <<"m","i","t">>

\* <<claimed name, extracted name>>: equal, equal but for case or white space, with
\* 0, 1/3, 2/3 and 3/5 of the words shared, and one of the two absent
NamePairs ==
    { <<NameJohn, NameJohn>>, <<NameJohn, NameJohnUpper>>, <<NameJohnTabbed, NameJohn>>,
      <<NameJohn, NameJane>>, <<NameJohn, NameJohnDoe>>, <<NameJohn, NameJohnAdam>>,
      <<NameCosta, NameSouza>>, <<NameFirstSpaced, NameFirst>>,
      <<NameJohn, Null>>, <<<<>>, NameJohn>> }

EvalSubmission(studentName, extractedName, text, confidence, institution, course, issueDate) ==
    [studentName   |-> studentName,
     walletAddress |-> FirstWallet,
     issuerWallet  |-> IssuerWallet,
     timestamp     |-> T0,
     ocrResult     |-> [text |-> text, confidence |-> confidence],
     extractedInfo |-> [studentName |-> extractedName, institution |-> institution,
                        course |-> course, issueDate |-> issueDate],
     fileHash      |-> 0]

\* the submissions of the evaluation machine: every pair of names on a consistent
\* document, at a high and at a low OCR confidence; every combination of present
\* and absent extracted fields; every OCR confidence on a consistent and on an
\* inconsistent document
EvalSubmissions ==
    {EvalSubmission(n[1], n[2], TextClean, c, InstMIT, CourseCS, DateRecent) :
        n \in NamePairs, c \in {60, 95}}
    \cup
    {EvalSubmission(NameJohn, e, t, c, i, k, d) :
        e \in {Null, NameJohn}, t \in {TextClean, TextForged}, c \in {60, 95},
        i \in {Null, <<>>, InstMIT, InstMITLower, InstStanford},
        k \in {Null, CourseCS}, d \in {Null, DateRecent}}
    \cup
    {EvalSubmission(NameJohn, NameJohn, t, c, InstMIT, CourseCS, DateRecent) :
        t \in Texts, c \in Confidences}
    \cup
    {EvalSubmission(NameJohn, NameJane, t, c, Null, Null, DateFuture) :
        t \in Texts, c \in Confidences}

\* the submissions of the malformed-input machine: well-typed values at the edge
\* of every field: an empty or absent name, an empty text, absent extracted
\* fields, an unparseable issue date, an Invalid Date as timestamp
MalformedSubmissions ==
    {[studentName   |-> n,
      walletAddress |-> FirstWallet,
      issuerWallet  |-> IssuerWallet,
      timestamp     |-> ts,
      ocrResult     |-> [text |-> t, confidence |-> c],
      extractedInfo |-> [studentName |-> e, institution |-> e, course |-> e,
                         issueDate |-> d],
      fileHash      |-> 0] :
        n \in {NameJohn, <<>>}, ts \in {T0, T0 - TickStep, NaN}, t \in {<<>>, TextForged},
        c \in {0, 95}, e \in {Null, <<>>, NameJohn}, d \in {Null, DateGarbage, DateFuture}}

\* the submissions of the pattern machine: a consistent and an inconsistent
\* document, with every text of PatternTexts at every OCR confidence
PatternSubmissions ==
    {EvalSubmission(NameJohn, NameJohn, t, c, InstMIT, CourseCS, DateRecent) :
        t \in PatternTexts, c \in Confidences}
    \cup
    {EvalSubmission(NameJohn, NameJane, t, c, InstStanford, Null, Null) :
        t \in PatternTexts, c \in Confidences}

\* the submissions of the weight machine: documents on which the name, the
\* forgery, the temporal and the institution evaluator each find something or
\* nothing, as a first file and as a second one
WeightSubmissions ==
    {[EvalSubmission(NameJohn, e, t, 95, i, CourseCS, d) EXCEPT !.fileHash = h] :
        e \in {NameJohn, NameJane}, t \in {TextClean, TextCleanCopy},
        i \in {InstMIT, InstStanford}, d \in {DateRecent, DateFuture}, h \in {0, 1}}

Profiles ==
    {[institutionName |-> InstMIT, walletAddress |-> IssuerWallet, trustScore |-> t] :
        t \in {DoubleOf(8, 10), DoubleOf(9, 10)}}

InjectedFlags ==
    {Flag("FORMAT", "LOW", <<"injected">>, Frac(1, 2)),
     Flag("FRAUD", "CRITICAL", <<"injected">>, Frac(1, 1))}

(***************************************************************************)
(* The findings of the evaluators that read only the OCR result, computed  *)
(* once for the OCR results of the model.  Cached(table, key, value) is    *)
(* value, read from the table when the table holds the key.                *)
(***************************************************************************)
OcrResults == {[text |-> t, confidence |-> c] : t \in AllTexts, c \in Confidences}

Cached(table, key, value) == IF key \in DOMAIN table THEN table[key] ELSE value

OcrQualityTable == [o \in OcrResults |-> checkOCRQuality(o)]
ForgeryPatternsTable == [t \in AllTexts |-> checkForgeryPatterns(t)]
DocumentFormatTable == [o \in OcrResults |-> checkDocumentFormat(o)]

(***************************************************************************)
(* Aggregator                                                              *)
(***************************************************************************)
\* the weight detectAnomalies adds per finding of each evaluator, in the order the
\* evaluators run: 0.15, 0.2, 0.1, 0.25, 0.1, 0.15, 0.2, 0.1
EvaluatorWeights ==
    << DoubleOf(15, 100), DoubleOf(2, 10), DoubleOf(1, 10), DoubleOf(25, 100),
       DoubleOf(1, 10), DoubleOf(15, 100), DoubleOf(2, 10), DoubleOf(1, 10) >>

\* the findings of the eight evaluators, in the order detectAnomalies runs them
evaluatorFlags(submission, timeWindow, maxSubmissions) ==
    << checkRateLimit(submission, timeWindow, maxSubmissions),
       checkNameConsistency(submission),
       Cached(OcrQualityTable, submission.ocrResult,
              checkOCRQuality(submission.ocrResult)),
       Cached(ForgeryPatternsTable, submission.ocrResult.text,
              checkForgeryPatterns(submission.ocrResult.text)),
       checkDataCompleteness(submission.extractedInfo),
       checkTemporalConsistency(submission.extractedInfo),
       checkInstitutionConsistency(submission),
       Cached(DocumentFormatTable, submission.ocrResult,
              checkDocumentFormat(submission.ocrResult)) >>

\* collectFlags putting the findings of each evaluator before those gathered so far
collectFlagsNewestFirst(groups) == Flatten([n \in 1..Len(groups) |-> groups[Len(groups) + 1 - n]])

\* flags.push(...) after each evaluator
collectFlags(groups) == Flatten(groups)

\* accumulateScore with one weight, 0.15, for the findings of every evaluator
accumulateScoreUniform(groups) ==
    LET acc[i \in 0..Len(groups)] ==
            IF i = 0 THEN DoubleOf(0, 1)
            ELSE DoubleAdd(acc[i - 1], DoubleTimes(Len(groups[i]), DoubleOf(15, 100)))
    IN  DoubleMin(DoubleOf(1, 1), acc[Len(groups)])

\* accumulateScore with the findings of the last evaluator counted in favour
accumulateScoreSigned(groups) ==
    LET acc[i \in 0..Len(groups)] ==
            IF i = 0 THEN DoubleOf(0, 1)
            ELSE IF i = Len(groups)
              THEN DoubleSub(acc[i - 1], DoubleTimes(Len(groups[i]), EvaluatorWeights[i]))
              ELSE DoubleAdd(acc[i - 1], DoubleTimes(Len(groups[i]), EvaluatorWeights[i]))
    IN  DoubleMin(DoubleOf(1, 1), acc[Len(groups)])

\* accumulateScore leaving out the findings of the last evaluator
accumulateScoreIgnoringFormat(groups) ==
    LET acc[i \in 0..Len(groups)] ==
            IF i = 0 \/ i = Len(groups) THEN (IF i = 0 THEN DoubleOf(0, 1) ELSE acc[i - 1])
            ELSE DoubleAdd(acc[i - 1], DoubleTimes(Len(groups[i]), EvaluatorWeights[i]))
    IN  DoubleMin(DoubleOf(1, 1), acc[Len(groups)])

\* anomalyScore += <findings of the evaluator>.length * weight, then Math.min(1, .)
accumulateScore(groups) ==
    LET acc[i \in 0..Len(groups)] ==
            IF i = 0 THEN DoubleOf(0, 1)
            ELSE DoubleAdd(acc[i - 1], DoubleTimes(Len(groups[i]), EvaluatorWeights[i]))
    IN  DoubleMin(DoubleOf(1, 1), acc[Len(groups)])

CountSeverity(flags, severity) ==
    Cardinality({i \in 1..Len(flags) : flags[i].severity = severity})

\* calculateTrustIndex without the final Math.max(0, Math.min(1, .))
calculateTrustIndexUnclamped(anomalyScore, submission, flags) ==
    LET hasProfile == MapHas(institutionProfiles, submission.issuerWallet)
        profile    == institutionProfiles[submission.issuerWallet]
        t1 == DoubleSub(DoubleOf(1, 1), anomalyScore)
        t2 == IF submission.ocrResult.confidence > 90
                THEN DoubleAdd(t1, DoubleOf(1, 10)) ELSE t1
        t3 == DoubleSub(t2, DoubleTimes(CountSeverity(flags, "CRITICAL"), DoubleOf(3, 10)))
    IN  IF hasProfile /\ DoubleGt(profile.trustScore, DoubleOf(8, 10))
          THEN DoubleAdd(t3, DoubleOf(1, 10)) ELSE t3

\* calculateTrustIndex taking 0.2 per CRITICAL finding
calculateTrustIndexLightPenalty(anomalyScore, submission, flags) ==
    LET hasProfile == MapHas(institutionProfiles, submission.issuerWallet)
        profile    == institutionProfiles[submission.issuerWallet]
        t1 == DoubleSub(DoubleOf(1, 1), anomalyScore)
        t2 == IF submission.ocrResult.confidence > 90
                THEN DoubleAdd(t1, DoubleOf(1, 10)) ELSE t1
        t3 == DoubleSub(t2, DoubleTimes(CountSeverity(flags, "CRITICAL"), DoubleOf(2, 10)))
        t4 == IF hasProfile /\ DoubleGt(profile.trustScore, DoubleOf(8, 10))
                THEN DoubleAdd(t3, DoubleOf(1, 10)) ELSE t3
    IN  DoubleMax(DoubleOf(0, 1), DoubleMin(DoubleOf(1, 1), t4))

\* calculateTrustIndex granting the OCR bonus from confidence 90 on
calculateTrustIndexAtLeast(anomalyScore, submission, flags) ==
    LET hasProfile == MapHas(institutionProfiles, submission.issuerWallet)
        profile    == institutionProfiles[submission.issuerWallet]
        t1 == DoubleSub(DoubleOf(1, 1), anomalyScore)
        t2 == IF submission.ocrResult.confidence >= 90
                THEN DoubleAdd(t1, DoubleOf(1, 10)) ELSE t1
        t3 == DoubleSub(t2, DoubleTimes(CountSeverity(flags, "CRITICAL"), DoubleOf(3, 10)))
        t4 == IF hasProfile /\ DoubleGt(profile.trustScore, DoubleOf(8, 10))
                THEN DoubleAdd(t3, DoubleOf(1, 10)) ELSE t3
    IN  DoubleMax(DoubleOf(0, 1), DoubleMin(DoubleOf(1, 1), t4))

calculateTrustIndex(anomalyScore, submission, flags) ==
    LET hasProfile == MapHas(institutionProfiles, submission.issuerWallet)
        profile    == institutionProfiles[submission.issuerWallet]
        t1 == DoubleSub(DoubleOf(1, 1), anomalyScore)
        t2 == IF submission.ocrResult.confidence > 90
                THEN DoubleAdd(t1, DoubleOf(1, 10)) ELSE t1
        t3 == DoubleSub(t2, DoubleTimes(CountSeverity(flags, "CRITICAL"), DoubleOf(3, 10)))
        t4 == IF hasProfile /\ DoubleGt(profile.trustScore, DoubleOf(8, 10))
                THEN DoubleAdd(t3, DoubleOf(1, 10)) ELSE t3
    IN  DoubleMax(DoubleOf(0, 1), DoubleMin(DoubleOf(1, 1), t4))

\* calculateRiskLevel answering HIGH from the first HIGH finding on
calculateRiskLevelAnyHigh(anomalyScore, flags) ==
    LET criticalFlags == CountSeverity(flags, "CRITICAL")
        highFlags     == CountSeverity(flags, "HIGH")
    IN  IF criticalFlags > 0 \/ DoubleGt(anomalyScore, DoubleOf(8, 10)) THEN "CRITICAL"
        ELSE IF highFlags > 0 \/ DoubleGt(anomalyScore, DoubleOf(6, 10)) THEN "HIGH"
        ELSE IF DoubleGt(anomalyScore, DoubleOf(3, 10)) THEN "MEDIUM"
        ELSE "LOW"

calculateRiskLevel(anomalyScore, flags) ==
    LET criticalFlags == CountSeverity(flags, "CRITICAL")
        highFlags     == CountSeverity(flags, "HIGH")
    IN  IF criticalFlags > 0 \/ DoubleGt(anomalyScore, DoubleOf(8, 10)) THEN "CRITICAL"
        ELSE IF highFlags > 1 \/ DoubleGt(anomalyScore, DoubleOf(6, 10)) THEN "HIGH"
        ELSE IF DoubleGt(anomalyScore, DoubleOf(3, 10)) THEN "MEDIUM"
        ELSE "LOW"

\* Date.prototype.toISOString of a valid date: year, month, day, hour, minute
toISOString(t) ==
    LET days == FloorDiv(t, MinutesPerDay)
        c    == CivilFromDays(days)
        rest == t - days * MinutesPerDay
    IN  <<c[1], c[2], c[3], rest \div 60, rest % 60>>

\* generateAIHash with the submitter among the hashed fields
generateAIHashWithWallet(flags, anomalyScore, trustIndex, submission) ==
    << "sha256",
       [i \in 1..Len(flags) |-> <<flags[i].type, flags[i].severity, flags[i].confidence>>],
       anomalyScore,
       trustIndex,
       toISOString(submission.timestamp),
       submission.ocrResult.confidence,
       submission.walletAddress >>

\* SHA-256 of the JSON text of the analysis vector.  The digest is taken to be
\* collision free: it is the tagged serialization, the fields in the order of the
\* object literal.
generateAIHash(flags, anomalyScore, trustIndex, submission) ==
    << "sha256",
       [i \in 1..Len(flags) |-> <<flags[i].type, flags[i].severity, flags[i].confidence>>],
       anomalyScore,
       trustIndex,
       toISOString(submission.timestamp),
       submission.ocrResult.confidence >>

\* calculateConfidence without the final Math.max(0, Math.min(100, .))
calculateConfidenceUnclamped(flagCount, ocrConfidence) ==
    FloorDiv((90 - flagCount * 10 + ocrConfidence) * 100, 2)

\* in hundredths of a point
calculateConfidence(flagCount, ocrConfidence) ==
    LET confidence == ((90 - flagCount * 10 + ocrConfidence) * 100) \div 2
    IN  Max(0, Min(10000, confidence))

\* the findings detectAnomalies holds when it reaches its await: those of the
\* first seven evaluators (the seventh has run, its promise is awaited)
beforeAwait(submission, timeWindow, maxSubmissions) ==
    SubSeq(evaluatorFlags(submission, timeWindow, maxSubmissions), 1, 7)

\* what detectAnomalies computes once resumed, up to the value it returns
afterAwait(submission, awaited) ==
    LET groups       == Append(awaited,
                               Cached(DocumentFormatTable, submission.ocrResult,
                                      checkDocumentFormat(submission.ocrResult)))
        flags        == collectFlags(groups)
        anomalyScore == accumulateScore(groups)
        trustIndex   == calculateTrustIndex(anomalyScore, submission, flags)
    IN  [anomalyScore |-> anomalyScore,
         trustIndex   |-> trustIndex,
         flags        |-> flags,
         confidence   |-> calculateConfidence(Len(flags), submission.ocrResult.confidence),
         riskLevel    |-> calculateRiskLevel(anomalyScore, flags),
         aiHash       |-> generateAIHash(flags, anomalyScore, trustIndex, submission)]

\* the value detectAnomalies returns when nothing runs during its await
detectAnomalies(submission, timeWindow, maxSubmissions) ==
    afterAwait(submission, beforeAwait(submission, timeWindow, maxSubmissions))

(***************************************************************************)
(* AIService (the service of the certificate routes): its history and its  *)
(* retention sweep                                                         *)
(***************************************************************************)
LegacyTickStep == 12 * 60   \* one clock advance between AIService calls, in minutes

MaxAges == {DefaultMaxAge, LegacyTickStep}

LegacySubmission(walletAddress, timestamp) ==
    [studentName   |-> NameJohn,
     walletAddress |-> walletAddress,
     timestamp     |-> timestamp,
     ocrResult     |-> [text |-> TextShort, confidence |-> 95],
     extractedInfo |-> [studentName |-> NameJohn, institution |-> InstMIT,
                        course |-> CourseCS, grade |-> Null, issueDate |-> Null]]

\* the array AIService.storeSubmission puts back into the map
legacyStoreSubmission(submission) ==
    LET w        == submission.walletAddress
        existing == Append(IF MapHas(legacySubmissions, w) THEN legacySubmissions[w]
                                                           ELSE <<>>,
                           submission)
    IN  IF Len(existing) > LegacyMaxStored
          THEN SubSeq(existing, Len(existing) - LegacyMaxStored + 1, Len(existing))
          ELSE existing

\* cleanup keeping the entry stamped exactly at the cutoff (>= for >)
cleanupInclusive(submissions, maxAge) ==
    LET cutoffTime  == now - maxAge
        filtered(w) == SelectSeq(submissions[w],
                                 LAMBDA sub : sub.timestamp # NaN /\ sub.timestamp >= cutoffTime)
        kept        == {w \in DOMAIN submissions : Len(filtered(w)) # 0}
    IN  IF kept = {} THEN EmptyMap ELSE [w \in kept |-> filtered(w)]

\* the map AIService.cleanup leaves: per wallet the entries stamped after the
\* cutoff, and no key for a wallet without any
cleanup(submissions, maxAge) ==
    LET cutoffTime  == now - maxAge
        filtered(w) == SelectSeq(submissions[w],
                                 LAMBDA sub : DateGt(sub.timestamp, cutoffTime))
        kept        == {w \in DOMAIN submissions : Len(filtered(w)) # 0}
    IN  IF kept = {} THEN EmptyMap ELSE [w \in kept |-> filtered(w)]

NoSweep == [last |-> FALSE, before |-> EmptyMap, maxAge |-> 0, repeated |-> FALSE,
            count |-> 0]

(***************************************************************************)
(* The certificate routes (routes/certificate.routes.ts) with a blockchain *)
(* service configured.  A digest is a string; a transaction hash is the    *)
(* pair of "tx" and the certificate id.  The contract and the network are  *)
(* the environment: a call of the blockchain service has any of the        *)
(* outcomes its code can return.                                           *)
(***************************************************************************)
CertIds == {"c1", "c2"}

\* fileHash, ocrHash and aiHash of the uploaded document, and the records that
\* differ from them in one digest
DocumentHashes == [fileHash |-> "f1", ocrHash |-> "o1", aiHash |-> "a1"]

HashRecords ==
    {DocumentHashes,
     [DocumentHashes EXCEPT !.fileHash = "f2"],
     [DocumentHashes EXCEPT !.ocrHash = "o2"],
     [DocumentHashes EXCEPT !.aiHash = "a2"]}

NoData == [present |-> FALSE, fileHash |-> "", ocrHash |-> "", aiHash |-> ""]

NoTx == <<"", "">>

TxOf(id) == <<"tx", id>>

\* BlockchainService.issueCertificate: the transaction is mined and its receipt
\* read, or it is rejected, or it is mined and reading the receipt fails
IssueOutcomes == {"success", "rejected", "lost"}

issueCertificate(certID, outcome) ==
    IF outcome = "success" THEN [success |-> TRUE, txHash |-> TxOf(certID)]
                           ELSE [success |-> FALSE, txHash |-> NoTx]

\* BlockchainService.verifyCertificate: a failed call, a certificate the contract
\* does not hold (timestamp 0), or one it holds, with the verdict of the
\* CertificateVerified event (false when the receipt carries no such event)
verifyCertificate(certID) ==
    {[success |-> FALSE, exists |-> FALSE, valid |-> FALSE, certificateData |-> NoData]}
    \cup
    (IF MapHas(chain, certID)
       THEN {[success |-> TRUE, exists |-> TRUE, valid |-> v,
              certificateData |-> [present  |-> TRUE,
                                   fileHash |-> chain[certID].fileHash,
                                   ocrHash  |-> chain[certID].ocrHash,
                                   aiHash   |-> chain[certID].aiHash]] : v \in BOOLEAN}
       ELSE {[success |-> TRUE, exists |-> FALSE, valid |-> FALSE,
              certificateData |-> NoData]})

\* the verdict of GET /api/verify/:id comparing the file and OCR digests only
verifiedIgnoringAiHash(certificate, blockchainResult) ==
    LET found           == blockchainResult.success /\ blockchainResult.exists
        blockchainValid == IF found THEN blockchainResult.valid ELSE FALSE
        blockchainData  == IF found THEN blockchainResult.certificateData ELSE NoData
        hashesMatch     == IF blockchainData.present
                             THEN /\ blockchainData.fileHash = certificate.fileHash
                                  /\ blockchainData.ocrHash = certificate.ocrHash
                             ELSE TRUE
    IN  hashesMatch /\ blockchainValid

\* the verdict of GET /api/verify/:id
verified(certificate, blockchainResult) ==
    LET found           == blockchainResult.success /\ blockchainResult.exists
        blockchainValid == IF found THEN blockchainResult.valid ELSE FALSE
        blockchainData  == IF found THEN blockchainResult.certificateData ELSE NoData
        hashesMatch     == IF blockchainData.present
                             THEN /\ blockchainData.fileHash = certificate.fileHash
                                  /\ blockchainData.ocrHash = certificate.ocrHash
                                  /\ blockchainData.aiHash = certificate.aiHash
                             ELSE TRUE
    IN  hashesMatch /\ blockchainValid

\* POST /api/issue going on to the database whatever the blockchain answered
storesAfterAnyIssue(blockchainResult) == TRUE

\* POST /api/issue goes on to the database only when the issuance succeeded
storesAfterIssue(blockchainResult) == blockchainResult.success

NoResult == [success |-> FALSE, exists |-> FALSE, valid |-> FALSE, certificateData |-> NoData]

Response(route, id, status, verdict, found, result) ==
    [route |-> route, id |-> id, status |-> status, verified |-> verdict, found |-> found,
     blockchainResult |-> result]

NoResponse == Response("", "", 0, FALSE, FALSE, NoResult)

(***************************************************************************)
(* State machine                                                           *)
(***************************************************************************)
Init ==
    /\ recentSubmissions = EmptyMap
    /\ institutionProfiles = EmptyMap
    /\ now = T0
    /\ log = [w \in Wallets |-> <<>>]
    /\ injected = [evaluator |-> 0, base |-> DoubleOf(0, 1), with |-> DoubleOf(0, 1)]
    /\ suspended = <<>>
    /\ rejected = <<>>
    /\ legacySubmissions = EmptyMap
    /\ swept = NoSweep
    /\ certificates = EmptyMap
    /\ chain = EmptyMap
    /\ response = NoResponse

\* generateAIHash calls submission.timestamp.toISOString(), which raises a
\* RangeError for an Invalid Date: the promise of detectAnomalies is rejected
\* before storeSubmission is reached
Raises(submission) == submission.timestamp = NaN

\* one call of detectAnomalies, run to completion
DetectAnomalies(submission) ==
    LET w == submission.walletAddress
    IN  IF Raises(submission)
          THEN /\ rejected' = Append(rejected, submission)
               /\ UNCHANGED <<recentSubmissions, institutionProfiles, now, log,
                              injected, suspended, legacySubmissions, swept,
                              certificates, chain, response>>
          ELSE /\ recentSubmissions' = MapSet(recentSubmissions, w,
                                              storeSubmission(submission))
               /\ log' = [log EXCEPT ![w] = Append(@,
                            [submission |-> submission,
                             at         |-> now,
                             result     |-> detectAnomalies(submission, TimeWindow,
                                                            MaxSubmissions),
                             fresh      |-> recentSubmissions = EmptyMap,
                             profiles   |-> institutionProfiles])]
               /\ UNCHANGED <<institutionProfiles, now, injected, suspended, rejected,
                              legacySubmissions, swept, certificates, chain, response>>

\* registerInstitution forgetting the submissions recorded so far
registerInstitutionClearing(walletAddress, profile) ==
    /\ institutionProfiles' = MapSet(institutionProfiles, walletAddress, profile)
    /\ recentSubmissions' = EmptyMap
    /\ UNCHANGED <<now, log, injected, suspended, rejected, legacySubmissions, swept,
                   certificates, chain, response>>

registerInstitution(walletAddress, profile) ==
    /\ institutionProfiles' = MapSet(institutionProfiles, walletAddress, profile)
    /\ UNCHANGED <<recentSubmissions, now, log, injected, suspended, rejected,
                   legacySubmissions, swept, certificates, chain, response>>

TotalCalls == LET n[S \in SUBSET Wallets] ==
                      IF S = {} THEN 0
                      ELSE LET w == CHOOSE x \in S : TRUE
                           IN  Len(log[w]) + n[S \ {w}]
              IN  n[Wallets]

Resubmitted(w) == Cardinality({i \in 1..Len(log[w]) : log[w][i].submission.fileHash = 0})

Backdated(w) ==
    Cardinality({i \in 1..Len(log[w]) : log[w][i].submission.timestamp # log[w][i].at})

\* the inputs vary during the first MaxVaried calls and once a history is full;
\* in between, the first wallet submits new files stamped with the clock
Varied(w) == TotalCalls < MaxVaried \/ Len(log[w]) >= MaxStored

\* a call of the history machine: a new file or the re-submitted file 0, stamped
\* with the clock or one step before it
Submit ==
    \E w \in Wallets, again \in BOOLEAN, late \in BOOLEAN :
      /\ Len(log[w]) < (IF w = FirstWallet THEN MaxCalls ELSE MaxOtherCalls)
      /\ (w # FirstWallet \/ again \/ late) => Varied(w)
      /\ again => Resubmitted(w) < MaxSame
      /\ late => Backdated(w) < MaxBackdated
      /\ DetectAnomalies(HistSubmission(w,
                                        IF again THEN 0 ELSE Len(log[w]) + 1,
                                        IF late THEN now - TickStep ELSE now))

Tick ==
    /\ now < T0 + MaxTicks * TickStep
    /\ TotalCalls < MaxVaried
    /\ now' = now + TickStep
    /\ UNCHANGED <<recentSubmissions, institutionProfiles, log, injected, suspended,
                   rejected, legacySubmissions, swept, certificates, chain, response>>

Next == Submit \/ Tick

Spec == Init /\ [][Next]_vars

\* the scoring machine scores one document, again and again
SameDocument(submission) ==
    IF log[FirstWallet] = <<>> THEN TRUE
    ELSE log[FirstWallet][1].submission = submission

NotInjected == injected.evaluator = 0

Score ==
    \E submission \in ScoreSubmissions :
      /\ TotalCalls < MaxScoreCalls
      /\ SameDocument(submission)
      /\ NotInjected
      /\ DetectAnomalies(submission)

Register ==
    \E profile \in Profiles :
      /\ NotInjected
      /\ ~(MapHas(institutionProfiles, IssuerWallet)
            /\ institutionProfiles[IssuerWallet] = profile)
      /\ registerInstitution(IssuerWallet, profile)

\* the process restarts: both maps are rebuilt empty
Restart ==
    /\ recentSubmissions # EmptyMap
    /\ recentSubmissions' = EmptyMap
    /\ institutionProfiles' = EmptyMap
    /\ UNCHANGED <<now, log, injected, suspended, rejected, legacySubmissions, swept,
                   certificates, chain, response>>

ScoreTick ==
    /\ now < T0 + MaxTicks * TickStep
    /\ NotInjected
    /\ now' = now + TickStep
    /\ UNCHANGED <<recentSubmissions, institutionProfiles, log, injected, suspended,
                   rejected, legacySubmissions, swept, certificates, chain, response>>

\* a submission scored as detectAnomalies scores it, and again with one finding
\* more in the list of one evaluator
Inject ==
    \E submission \in ScoreSubmissions, evaluator \in 1..Len(EvaluatorWeights),
       flag \in InjectedFlags :
      LET groups == evaluatorFlags(submission, TimeWindow, MaxSubmissions)
      IN  /\ SameDocument(submission)
          /\ NotInjected
          /\ injected' = [evaluator |-> evaluator,
                          base      |-> accumulateScore(groups),
                          with      |-> accumulateScore(
                                          [groups EXCEPT ![evaluator] = Append(@, flag)])]
          /\ UNCHANGED <<recentSubmissions, institutionProfiles, now, log, suspended,
                         rejected, legacySubmissions, swept, certificates, chain,
                         response>>

NextScore == Score \/ Register \/ Restart \/ ScoreTick

SpecScore == Init /\ [][NextScore]_vars

NextInject == Score \/ Register \/ ScoreTick \/ Inject

SpecInject == Init /\ [][NextInject]_vars

\* the calls of a wallet begun so far, and those of them for the re-submitted file
Begun(w) ==
    Len(log[w])
      + Cardinality({i \in 1..Len(suspended) : suspended[i].submission.walletAddress = w})

BegunSame(w) ==
    Resubmitted(w)
      + Cardinality({i \in 1..Len(suspended) :
                       /\ suspended[i].submission.walletAddress = w
                       /\ suspended[i].submission.fileHash = 0})

\* calls overlap at the start of a run and once the history of the first wallet
\* is about to be full; in between, each call completes before the next begins
Overlapping ==
    \/ TotalCalls + Len(suspended) < MaxOverlapped
    \/ Len(log[FirstWallet]) >= MaxStored - 1

\* detectAnomalies up to its await: the first seven evaluators have run
Begin ==
    \E w \in Wallets, again \in BOOLEAN :
      LET submission == HistSubmission(w, IF again THEN 0 ELSE Begun(w) + 1, now)
      IN  /\ Len(suspended) < MaxSuspended
          /\ Begun(w) < (IF w = FirstWallet THEN MaxBegun ELSE MaxOtherCalls)
          /\ (suspended # <<>> \/ w # FirstWallet \/ again) => Overlapping
          /\ again => BegunSame(w) < MaxSame
          /\ suspended' = Append(suspended,
                                 [submission |-> submission,
                                  awaited    |-> beforeAwait(submission, TimeWindow,
                                                             MaxSubmissions)])
          /\ UNCHANGED <<recentSubmissions, institutionProfiles, now, log, injected,
                         rejected, legacySubmissions, swept, certificates, chain,
                         response>>

\* detectAnomalies from its await on: any waiting call is resumed and runs to its
\* return without interruption
Resume ==
    \E i \in 1..Len(suspended) :
      LET submission == suspended[i].submission
          w          == submission.walletAddress
      IN  /\ suspended' = SubSeq(suspended, 1, i - 1)
                            \o SubSeq(suspended, i + 1, Len(suspended))
          /\ IF Raises(submission)
               THEN /\ rejected' = Append(rejected, submission)
                    /\ UNCHANGED <<recentSubmissions, institutionProfiles, now, log,
                                   injected, legacySubmissions, swept, certificates,
                                   chain, response>>
               ELSE /\ recentSubmissions' = MapSet(recentSubmissions, w,
                                                   storeSubmission(submission))
                    /\ log' = [log EXCEPT ![w] = Append(@,
                                 [submission |-> submission,
                                  at         |-> now,
                                  result     |-> afterAwait(submission,
                                                            suspended[i].awaited),
                                  fresh      |-> recentSubmissions = EmptyMap,
                                  profiles   |-> institutionProfiles])]
                    /\ UNCHANGED <<institutionProfiles, now, injected, rejected,
                                   legacySubmissions, swept, certificates, chain,
                                   response>>

NextConcurrent == Begin \/ Resume

SpecConcurrent == Init /\ [][NextConcurrent]_vars

\* the malformed-input machine calls detectAnomalies with one document of
\* MalformedSubmissions, at most MaxMalformedCalls times, with any registry
ScoreMalformed ==
    \E submission \in MalformedSubmissions :
      /\ TotalCalls + Len(rejected) < MaxMalformedCalls
      /\ SameDocument(submission)
      /\ rejected # <<>> => rejected[1] = submission
      /\ DetectAnomalies(submission)

NextMalformed == ScoreMalformed \/ Register

SpecMalformed == Init /\ [][NextMalformed]_vars

\* the pattern machine scores one document of PatternSubmissions, at most
\* MaxPatternCalls times, with any registry
ScorePatterns ==
    \E submission \in PatternSubmissions :
      /\ TotalCalls < MaxPatternCalls
      /\ SameDocument(submission)
      /\ DetectAnomalies(submission)

NextPatterns == ScorePatterns \/ Register

SpecPatterns == Init /\ [][NextPatterns]_vars

\* the weight machine scores documents of WeightSubmissions one after the other,
\* the first of them as file 0, with any registry
ScoreWeighted ==
    \E submission \in WeightSubmissions :
      /\ TotalCalls < MaxWeightCalls
      /\ TotalCalls = 0 => submission.fileHash = 0
      /\ DetectAnomalies(submission)

NextWeights == ScoreWeighted \/ Register

SpecWeights == Init /\ [][NextWeights]_vars

\* the frame machine: a few overlapping calls of both wallets, and registrations
\* at any moment
BeginFramed ==
    /\ TotalCalls + Len(suspended) < MaxFrameCalls
    /\ Begin

NextFrame == BeginFramed \/ Resume \/ Register

SpecFrame == Init /\ [][NextFrame]_vars

\* the legacy machine: AIService.detectAnomalies records submissions stamped with
\* the clock or one step before it, the clock advances, and cleanup runs with the
\* default maxAge or a shorter one
LegacyStored ==
    LET n[S \in SUBSET DOMAIN legacySubmissions] ==
            IF S = {} THEN 0
            ELSE LET w == CHOOSE x \in S : TRUE
                 IN  Len(legacySubmissions[w]) + n[S \ {w}]
    IN  n[DOMAIN legacySubmissions]

LegacyDetectAnomalies ==
    \E w \in Wallets, late \in BOOLEAN :
      LET submission == LegacySubmission(w, IF late THEN now - LegacyTickStep ELSE now)
      IN  /\ LegacyStored < MaxLegacyCalls
          /\ swept.count = 0
          /\ legacySubmissions' = MapSet(legacySubmissions, w,
                                         legacyStoreSubmission(submission))
          /\ swept' = NoSweep
          /\ UNCHANGED <<recentSubmissions, institutionProfiles, now, log, injected,
                         suspended, rejected, certificates, chain, response>>

LegacyTick ==
    /\ now < T0 + MaxLegacyTicks * LegacyTickStep
    /\ legacySubmissions # EmptyMap
    /\ swept.count = 0
    /\ now' = now + LegacyTickStep
    /\ swept' = NoSweep
    /\ UNCHANGED <<recentSubmissions, institutionProfiles, log, injected, suspended,
                   rejected, legacySubmissions, certificates, chain, response>>

Cleanup ==
    \E maxAge \in MaxAges :
      /\ swept.count < MaxSweeps
      /\ legacySubmissions' = cleanup(legacySubmissions, maxAge)
      /\ swept' = [last     |-> TRUE,
                   before   |-> legacySubmissions,
                   maxAge   |-> maxAge,
                   repeated |-> swept.last /\ swept.maxAge = maxAge,
                   count    |-> swept.count + 1]
      /\ UNCHANGED <<recentSubmissions, institutionProfiles, now, log, injected,
                     suspended, rejected, certificates, chain, response>>

NextLegacy == LegacyDetectAnomalies \/ LegacyTick \/ Cleanup

SpecLegacy == Init /\ [][NextLegacy]_vars

\* POST /api/issue for a document of the first wallet: OCR and its quality gate,
\* the anomaly detection of AIService (which records the submission), the
\* issuance on the contract, then the insertion into the database, which the
\* database accepts or rejects
IssueRoute ==
    \E certID \in CertIds, quality \in BOOLEAN, outcome \in IssueOutcomes,
       inserted \in BOOLEAN :
      LET blockchainResult == issueCertificate(certID, outcome)
          submission       == LegacySubmission(FirstWallet, now)
      IN  /\ ~MapHas(certificates, certID)
          /\ ~MapHas(chain, certID)
          /\ LegacyStored < MaxIssueCalls
          /\ IF ~quality
               THEN /\ response' = Response("issue", certID, 400, FALSE, FALSE, NoResult)
                    /\ UNCHANGED <<legacySubmissions, swept, chain, certificates>>
               ELSE /\ legacySubmissions' = MapSet(legacySubmissions, FirstWallet,
                                                   legacyStoreSubmission(submission))
                    /\ swept' = NoSweep
                    /\ chain' = IF outcome \in {"success", "lost"}
                                  THEN MapSet(chain, certID,
                                              [fileHash |-> DocumentHashes.fileHash,
                                               ocrHash  |-> DocumentHashes.ocrHash,
                                               aiHash   |-> DocumentHashes.aiHash,
                                               tx       |-> TxOf(certID)])
                                  ELSE chain
                    /\ IF storesAfterIssue(blockchainResult) /\ inserted
                         THEN /\ certificates' =
                                   MapSet(certificates, certID,
                                          [fileHash |-> DocumentHashes.fileHash,
                                           ocrHash  |-> DocumentHashes.ocrHash,
                                           aiHash   |-> DocumentHashes.aiHash,
                                           txHash   |-> blockchainResult.txHash,
                                           verified |-> FALSE,
                                           route    |-> "issue"])
                              /\ response' = Response("issue", certID, 200, FALSE, FALSE,
                                                      [NoResult EXCEPT !.success =
                                                         blockchainResult.success])
                         ELSE /\ UNCHANGED certificates
                              /\ response' = Response("issue", certID, 500, FALSE, FALSE,
                                                      [NoResult EXCEPT !.success =
                                                         blockchainResult.success])
          /\ UNCHANGED <<recentSubmissions, institutionProfiles, now, log, injected,
                         suspended, rejected>>

\* GET /api/verify/:id
VerifyRoute ==
    \E id \in CertIds :
      IF ~MapHas(certificates, id)
        THEN /\ response' = Response("verify", id, 404, FALSE, FALSE, NoResult)
             /\ UNCHANGED <<recentSubmissions, institutionProfiles, now, log, injected,
                            suspended, rejected, legacySubmissions, swept, certificates,
                            chain>>
        ELSE \E blockchainResult \in verifyCertificate(id) :
               LET verdict == verified(certificates[id], blockchainResult)
               IN  /\ certificates' = [certificates EXCEPT ![id].verified = verdict]
                   /\ response' = Response("verify", id, 200, verdict, TRUE,
                                           blockchainResult)
                   /\ UNCHANGED <<recentSubmissions, institutionProfiles, now, log,
                                  injected, suspended, rejected, legacySubmissions, swept,
                                  chain>>

\* another writer of the table (the bulk upload of the admin routes) stores a
\* certificate that is not on the contract: its txHash is empty
DatabaseWrite ==
    \E id \in CertIds :
      /\ ~MapHas(certificates, id)
      /\ certificates' = MapSet(certificates, id,
                                [fileHash |-> DocumentHashes.fileHash,
                                 ocrHash  |-> DocumentHashes.ocrHash,
                                 aiHash   |-> DocumentHashes.aiHash,
                                 txHash   |-> NoTx,
                                 verified |-> FALSE,
                                 route    |-> "bulk-upload"])
      /\ UNCHANGED <<recentSubmissions, institutionProfiles, now, log, injected, suspended,
                     rejected, legacySubmissions, swept, chain, response>>

\* another issuer adds a certificate to the contract
ChainWrite ==
    \E id \in CertIds, hashes \in HashRecords :
      /\ ~MapHas(chain, id)
      /\ chain' = MapSet(chain, id,
                         [fileHash |-> hashes.fileHash, ocrHash |-> hashes.ocrHash,
                          aiHash |-> hashes.aiHash, tx |-> <<"tx", "other">>])
      /\ UNCHANGED <<recentSubmissions, institutionProfiles, now, log, injected, suspended,
                     rejected, legacySubmissions, swept, certificates, response>>

NextRoutes == IssueRoute \/ VerifyRoute \/ DatabaseWrite \/ ChainWrite

SpecRoutes == Init /\ [][NextRoutes]_vars

\* the evaluation machine scores one document of EvalSubmissions, at most
\* MaxEvalCalls times, with any registry
Evaluate ==
    \E submission \in EvalSubmissions :
      /\ TotalCalls < MaxEvalCalls
      /\ SameDocument(submission)
      /\ DetectAnomalies(submission)

NextEvaluate == Evaluate \/ Register

SpecEvaluate == Init /\ [][NextEvaluate]_vars

(***************************************************************************)
(* Properties                                                              *)
(***************************************************************************)
\* every completed call, as recorded
Calls == UNION {SeqToSet(log[w]) : w \in Wallets}

HasFlag(flags, type, severity, confidence) ==
    \E i \in 1..Len(flags) :
      /\ flags[i].type = type
      /\ flags[i].severity = severity
      /\ flags[i].confidence = confidence

\* C1: every result of detectAnomalies has its anomalyScore and its trustIndex
\* within [0, 1], whatever the submission, the history and the registry.
C1_ScoresWithinUnitInterval ==
    \A c \in Calls :
      /\ ~DoubleLt(c.result.anomalyScore, DoubleOf(0, 1))
      /\ ~DoubleGt(c.result.anomalyScore, DoubleOf(1, 1))
      /\ ~DoubleLt(c.result.trustIndex, DoubleOf(0, 1))
      /\ ~DoubleGt(c.result.trustIndex, DoubleOf(1, 1))

\* both clamps at work: a call whose findings weigh more than 1 and whose trust
\* falls below 0, and in another run a call whose trust would exceed 1
C1_Witness ==
    \/ \E c \in Calls :
         /\ c.result.anomalyScore = DoubleOf(1, 1)
         /\ c.result.trustIndex = DoubleOf(0, 1)
         /\ Len(c.result.flags) >= 8
    \/ \E c \in Calls :
         /\ c.result.flags = <<>>
         /\ c.submission.ocrResult.confidence > 90
         /\ c.result.trustIndex = DoubleOf(1, 1)

\* C2: scoring again with one finding more in the list of one evaluator never
\* gives a lower anomalyScore.
C2_InjectionNeverLowersScore ==
    injected.evaluator # 0 => ~DoubleLt(injected.with, injected.base)

\* a finding injected into a scoring that was below the clamp, and raised it
C2_Witness ==
    /\ injected.evaluator # 0
    /\ DoubleGt(injected.base, DoubleOf(0, 1))
    /\ DoubleGt(injected.with, injected.base)

\* C3: two calls that score the same submission, each from an empty history and
\* with the same registry, return the same anomalyScore, trustIndex, riskLevel
\* and aiHash, whenever each of them runs.
C3_DeterministicFromResetHistory ==
    \A w \in Wallets :
      \A i, j \in 1..Len(log[w]) :
        ( /\ log[w][i].submission = log[w][j].submission
          /\ log[w][i].fresh /\ log[w][j].fresh
          /\ log[w][i].profiles = log[w][j].profiles )
        => /\ log[w][i].result.anomalyScore = log[w][j].result.anomalyScore
           /\ log[w][i].result.trustIndex = log[w][j].result.trustIndex
           /\ log[w][i].result.riskLevel = log[w][j].result.riskLevel
           /\ log[w][i].result.aiHash = log[w][j].result.aiHash

\* the stored history of a wallet, empty for a wallet never seen
Stored(w) == IF MapHas(recentSubmissions, w) THEN recentSubmissions[w] ELSE <<>>

\* the last n members of a sequence
LastOf(q, n) == IF Len(q) > n THEN SubSeq(q, Len(q) - n + 1, Len(q)) ELSE q

\* the submissions scored for a wallet, in the order of the calls
Scored(w) == [i \in 1..Len(log[w]) |-> log[w][i].submission]

HighDuplicate(call) == HasFlag(call.result.flags, "DUPLICATE", "HIGH", <<9, 10>>)
CriticalDuplicate(call) == HasFlag(call.result.flags, "DUPLICATE", "CRITICAL", <<1, 1>>)

\* the first k calls of wallet w submitted distinct files, all stamped within the
\* 30 minutes before the k-th call
DistinctInWindow(w, k) ==
    /\ \A i, j \in 1..k : i # j => log[w][i].submission.fileHash # log[w][j].submission.fileHash
    /\ \A i \in 1..k : log[w][i].submission.timestamp > log[w][k].at - 30

\* C4: from an empty history, in a run of distinct files of one wallet that all
\* lie within the 30-minute window, the k-th call emits the HIGH DUPLICATE finding
\* (confidence 0.9) exactly when k >= 4.
C4_RateLimitFromFourthCall ==
    \A w \in Wallets :
      \A k \in 1..Len(log[w]) :
        DistinctInWindow(w, k) => (HighDuplicate(log[w][k]) <=> k >= 4)

\* the earlier calls of wallet w that submitted the file of its j-th call with a
\* timestamp within the 30 minutes before the j-th call
EarlierSameFile(w, j) ==
    {i \in 1..(j - 1) :
       /\ log[w][i].submission.fileHash = log[w][j].submission.fileHash
       /\ log[w][i].submission.timestamp > log[w][j].at - 30}

\* C5 (as claimed): a call emits the CRITICAL DUPLICATE finding exactly when an
\* earlier call of the same wallet submitted the same file with a timestamp within
\* the window, however many calls lie in between.
C5_DuplicateWheneverSubmittedBefore ==
    \A w \in Wallets :
      \A j \in 1..Len(log[w]) :
        CriticalDuplicate(log[w][j]) <=> EarlierSameFile(w, j) # {}

\* C5 (amended): a call emits the CRITICAL DUPLICATE finding (confidence 1.0)
\* exactly when one of the 20 calls of the same wallet that precede it submitted
\* the same file with a timestamp within the window.
C5_DuplicateAmongLastTwenty ==
    \A w \in Wallets :
      \A j \in 1..Len(log[w]) :
        CriticalDuplicate(log[w][j]) <=> \E i \in EarlierSameFile(w, j) : j - i <= 20

\* a duplicate found with other calls in between, and in another run a duplicate
\* missed because 20 calls lie in between
C5_Witness ==
    \/ \E j \in 1..Len(log[FirstWallet]) :
         /\ CriticalDuplicate(log[FirstWallet][j])
         /\ \A i \in EarlierSameFile(FirstWallet, j) : j - i >= 2
    \/ \E j \in 1..Len(log[FirstWallet]) :
         /\ ~CriticalDuplicate(log[FirstWallet][j])
         /\ EarlierSameFile(FirstWallet, j) # {}

\* C6: the stored history of every wallet holds at most 20 entries, and so does
\* what getRecentSubmissions returns.
C6_HistoryCap ==
    \A w \in Wallets :
      /\ Len(Stored(w)) <= 20
      /\ Len(getRecentSubmissions(w, TimeWindow)) <= 20

\* a full history after more than 20 calls
C6_Witness ==
    /\ Len(log[FirstWallet]) > 20
    /\ Len(Stored(FirstWallet)) = 20
    /\ Len(getRecentSubmissions(FirstWallet, TimeWindow)) = 20

\* C7: after n calls for a wallet its stored history is the last min(n, 20)
\* submissions scored for it, in the order of the calls.
C7_OldestFirstEviction ==
    \A w \in Wallets : Stored(w) = LastOf(Scored(w), 20)

\* two entries have been discarded
C7_Witness ==
    /\ Len(log[FirstWallet]) >= 22
    /\ Stored(FirstWallet)[1] = log[FirstWallet][3].submission

\* the stored entries of a wallet stamped within the 30 minutes before the clock
RecordedInWindow(w) ==
    SelectSeq(LastOf(Scored(w), 20), LAMBDA sub : sub.timestamp > now - 30)

\* C8 (as claimed): getRecentSubmissions returns the stored entries within the
\* window, the entry with the most recent timestamp last, and nothing for a wallet
\* never seen.
C8_RecentEndsWithLatestTimestamp ==
    \A w \in Wallets :
      LET recent == getRecentSubmissions(w, TimeWindow)
      IN  /\ recent = RecordedInWindow(w)
          /\ \A i \in 1..Len(recent) : recent[i].timestamp <= recent[Len(recent)].timestamp
          /\ log[w] = <<>> => recent = <<>>

\* C8 (amended): getRecentSubmissions returns the stored entries stamped strictly
\* later than the clock minus the window, in the order in which they were
\* recorded, and nothing for a wallet never seen; the stored history is left as
\* the calls recorded it.
C8_RecentInRecordedOrder ==
    \A w \in Wallets :
      LET recent == getRecentSubmissions(w, TimeWindow)
      IN  /\ recent = RecordedInWindow(w)
          /\ log[w] = <<>> => recent = <<>>
          /\ Stored(w) = LastOf(Scored(w), 20)

\* an entry left out for its age before an entry recorded later, and an entry
\* with an earlier timestamp recorded after one with a later timestamp
C8_Witness ==
    \/ LET recent == getRecentSubmissions(FirstWallet, TimeWindow)
       IN  /\ recent # <<>>
           /\ Len(recent) < Len(Stored(FirstWallet))
    \/ LET recent == getRecentSubmissions(FirstWallet, TimeWindow)
       IN  /\ Len(recent) >= 2
           /\ recent[1].timestamp > recent[Len(recent)].timestamp

IssueDateOf(call) == call.submission.extractedInfo.issueDate

CountFlags(flags, P(_)) == Cardinality({i \in 1..Len(flags) : P(flags[i])})

\* C9: a call whose issueDate is present and is no date ("not-a-date") gets
\* exactly one LOW FORMAT finding with confidence 0.5.
C9_UnparseableDateIsAFinding ==
    \A c \in Calls :
      IssueDateOf(c) = DateGarbage
      => CountFlags(c.result.flags,
                    LAMBDA f : f.type = "FORMAT" /\ f.severity = "LOW"
                               /\ f.confidence = <<1, 2>>) = 1

\* the time values of the parseable issue dates of the model, in minutes since the
\* epoch: 2026-11-07, 1976-11-07, 2099-01-01, 1950-01-01 and 2020-06-15, 00:00 UTC
TimeValue(d) ==
    CASE d = DateTomorrow   -> 29900160
      [] d = DateFiftyYears -> 3602880
      [] d = DateFuture     -> 67848480
      [] d = DateOld        -> -10519200
      [] d = DateRecent     -> 26536320

Parseable == {DateTomorrow, DateFiftyYears, DateFuture, DateOld, DateRecent}

\* fifty calendar years before a moment of November 2026: 18262 days
FiftyYearsBefore(t) == t - 18262 * 24 * 60

\* the findings about the issue date among the findings of a call
FutureDate(call) ==
    CountFlags(call.result.flags,
               LAMBDA f : f.type = "INCONSISTENCY" /\ f.severity = "HIGH"
                          /\ f.confidence = <<9, 10>>
                          /\ f.description[1] = "Certificate issue date is in the future")
OldDate(call) ==
    CountFlags(call.result.flags,
               LAMBDA f : f.type = "INCONSISTENCY" /\ f.severity = "LOW"
                          /\ f.confidence = <<3, 5>>)
AboutIssueDate(call) ==
    CountFlags(call.result.flags,
               LAMBDA f : \/ f.type = "INCONSISTENCY" /\ f.description[1] # "Name mismatch"
                          \/ f.description[1] = "Invalid date format")

\* C10: a parseable issueDate later than the moment of the call gives one HIGH
\* INCONSISTENCY finding (0.9); one more than 50 years before it gives one LOW
\* INCONSISTENCY finding (0.6); one in between, or an absent issueDate, gives
\* none; the two are never given together.
C10_TemporalFindings ==
    \A c \in Calls :
      /\ IssueDateOf(c) \in Parseable =>
           /\ FutureDate(c) = (IF TimeValue(IssueDateOf(c)) > c.at THEN 1 ELSE 0)
           /\ OldDate(c) = (IF TimeValue(IssueDateOf(c)) < FiftyYearsBefore(c.at) THEN 1 ELSE 0)
           /\ AboutIssueDate(c) = FutureDate(c) + OldDate(c)
           /\ AboutIssueDate(c) <= 1
      /\ IssueDateOf(c) = Null => AboutIssueDate(c) = 0

\* the date fifty years and a few minutes old scored twice: in range at the
\* first call, too old at the second
C10_Witness ==
    \E w \in Wallets :
      \E i, j \in 1..Len(log[w]) :
        /\ IssueDateOf(log[w][i]) = DateFiftyYears
        /\ IssueDateOf(log[w][j]) = DateFiftyYears
        /\ AboutIssueDate(log[w][i]) = 0
        /\ OldDate(log[w][j]) = 1

\* the words of a name: its maximal runs of characters other than white space,
\* in lower case
Words(name) ==
    {toLowerCase(SubSeq(name, r[1], r[2])) :
        r \in {ij \in (1..Len(name)) \X (1..Len(name)) :
                 /\ ij[1] <= ij[2]
                 /\ \A k \in ij[1]..ij[2] : ~IsSpace(name[k])
                 /\ (ij[1] = 1 \/ IsSpace(name[ij[1] - 1]))
                 /\ (ij[2] = Len(name) \/ IsSpace(name[ij[2] + 1]))}}

NameFindings(call) ==
    SelectSeq(call.result.flags, LAMBDA f : f.description[1] = "Name mismatch")

\* C11: with both names present, the result holds one HIGH INCONSISTENCY finding
\* about the name, with confidence 1 - similarity, exactly when the Jaccard
\* similarity of the two sets of lower-cased words is below 0.6, and none
\* otherwise (none either when a name is absent).
C11_NameFindingFollowsJaccard ==
    \A c \in Calls :
      LET claimed   == c.submission.studentName
          extracted == c.submission.extractedInfo.studentName
          inter     == Cardinality(Words(extracted) \cap Words(claimed))
          union     == Cardinality(Words(extracted) \cup Words(claimed))
          found     == NameFindings(c)
      IN  IF Truthy(claimed) /\ Truthy(extracted) /\ union > 0 /\ 10 * inter < 6 * union
            THEN /\ Len(found) = 1
                 /\ found[1].type = "INCONSISTENCY"
                 /\ found[1].severity = "HIGH"
                 /\ found[1].confidence = Frac(union - inter, union)
            ELSE found = <<>>

\* the findings of a recorded call whose description starts with the given text
Described(call, text) ==
    SelectSeq(call.result.flags, LAMBDA f : f.description[1] = text)

Missing(call, field) == ~Truthy(call.submission.extractedInfo[field])

\* C12: the result holds exactly one MEDIUM FORMAT finding (confidence 0.7) for
\* each of studentName and institution that is missing, exactly one LOW FORMAT
\* finding (confidence 0.5) if and only if course and issueDate are both
\* missing, and the completeness evaluator emits nothing else.
C12_CompletenessFindings ==
    \A c \in Calls :
      LET required    == Described(c, "Missing required field")
          recommended == Described(c, "Missing recommended fields")
          about(field) == SelectSeq(required, LAMBDA f : f.description[2] = field)
          bothMissing == Missing(c, "course") /\ Missing(c, "issueDate")
      IN  /\ \A field \in {"studentName", "institution"} :
               Len(about(field)) = (IF Missing(c, field) THEN 1 ELSE 0)
          /\ \A i \in 1..Len(required) :
               /\ required[i].type = "FORMAT"
               /\ required[i].severity = "MEDIUM"
               /\ required[i].confidence = <<7, 10>>
          /\ Len(recommended) = (IF bothMissing THEN 1 ELSE 0)
          /\ \A i \in 1..Len(recommended) :
               /\ recommended[i].type = "FORMAT"
               /\ recommended[i].severity = "LOW"
               /\ recommended[i].confidence = <<1, 2>>
          /\ Len(checkDataCompleteness(c.submission.extractedInfo))
               = Len(required) + Len(recommended)
          /\ Len(required) = Cardinality({field \in {"studentName", "institution"} :
                                            Missing(c, field)})

\* a call whose name and institution are both missing (two MEDIUM findings) and
\* whose issueDate alone of the recommended fields is missing (no LOW finding)
C12_Witness ==
    \E c \in Calls :
      /\ Missing(c, "studentName") /\ Missing(c, "institution")
      /\ ~Missing(c, "course") /\ Missing(c, "issueDate")
      /\ Len(Described(c, "Missing required field")) = 2
      /\ Described(c, "Missing recommended fields") = <<>>

SameIgnoringCase(a, b) ==
    /\ Len(a) = Len(b)
    /\ \A i \in 1..Len(a) : toLowerCase(<<a[i]>>) = toLowerCase(<<b[i]>>)

\* the issuer of the call is registered under a name other than the extracted one
OtherInstitution(call) ==
    /\ MapHas(call.profiles, call.submission.issuerWallet)
    /\ Truthy(call.submission.extractedInfo.institution)
    /\ ~SameIgnoringCase(call.profiles[call.submission.issuerWallet].institutionName,
                         call.submission.extractedInfo.institution)

\* C13: the result holds a CRITICAL FRAUD finding (one, confidence 0.95) if and
\* only if a profile is registered for the issuerWallet, the extracted
\* institution is present and the profile's institutionName differs from it
\* ignoring case; with no profile or no extracted institution it holds none,
\* and the call completes with a result.
C13_InstitutionFailOpen ==
    \A c \in Calls :
      LET found == SelectSeq(c.result.flags,
                             LAMBDA f : f.type = "FRAUD" /\ f.severity = "CRITICAL")
      IN  IF OtherInstitution(c)
            THEN /\ Len(found) = 1
                 /\ found[1].confidence = <<19, 20>>
            ELSE found = <<>>

\* a registered issuer whose certificate names another institution, flagged
C13_Witness ==
    \E c \in Calls :
      /\ OtherInstitution(c)
      /\ HasFlag(c.result.flags, "FRAUD", "CRITICAL", <<19, 20>>)

\* where a finding is emitted: 100 * (the evaluator, in the order of the contract:
\* RateLimit, NameConsistency, ExtractionQuality, ForgeryPatterns, Completeness,
\* TemporalConsistency, InstitutionConsistency, DocumentFormat) + its place among
\* the findings the evaluator can emit
EmissionRank(f) ==
    LET d == f.description[1]
    IN  CASE d = "submissions from same wallet" -> 101
          [] d = "Identical file submitted previously" -> 102
          [] d = "Name mismatch" -> 201
          [] d = "Low OCR confidence" -> 301
          [] d = "Text encoding issues detected" -> 302
          [] d = "Suspicious keyword detected" ->
               400 + (CHOOSE k \in 1..Len(suspiciousPatterns) :
                        suspiciousPatterns[k] = f.description[2])
          [] d = "Word repeated" -> 450
          [] d = "Missing required field" ->
               IF f.description[2] = "studentName" THEN 501 ELSE 502
          [] d = "Missing recommended fields" -> 503
          [] d = "Certificate issue date is in the future" -> 601
          [] d = "Certificate issue date is unusually old" -> 602
          [] d = "Issuer wallet authorized for" -> 701
          [] d = "Certificate text is unusually short" -> 801
          [] d = "Certificate text is unusually long" -> 801
          [] d = "Document does not follow standard certificate format" -> 802

EvaluatorsIn(flags) == {EmissionRank(flags[i]) \div 100 : i \in 1..Len(flags)}

\* C14: in the flags of every result no finding of a later evaluator precedes a
\* finding of an earlier one, and the findings of one evaluator are in its
\* emission order.
C14_FindingsInEvaluatorOrder ==
    \A c \in Calls :
      \A i, j \in 1..Len(c.result.flags) :
        i < j =>
          LET ri == EmissionRank(c.result.flags[i])
              rj == EmissionRank(c.result.flags[j])
          IN  ri < rj \/ (ri = rj /\ ri = 450)

\* a result with findings of seven of the eight evaluators, one of which emitted
\* several
C14_Witness ==
    \E c \in Calls :
      /\ Cardinality(EvaluatorsIn(c.result.flags)) >= 7
      /\ Len(c.result.flags) > Cardinality(EvaluatorsIn(c.result.flags))

OcrBonus(call) ==
    IF call.submission.ocrResult.confidence > 90 THEN DoubleOf(1, 10) ELSE DoubleOf(0, 1)

InstitutionBonus(call) ==
    IF /\ MapHas(call.profiles, call.submission.issuerWallet)
       /\ DoubleGt(call.profiles[call.submission.issuerWallet].trustScore, DoubleOf(8, 10))
      THEN DoubleOf(1, 10) ELSE DoubleOf(0, 1)

\* 1 - anomalyScore + ocrBonus - 0.3 * (number of CRITICAL findings) + institutionBonus
TrustBeforeClamp(call) ==
    DoubleAdd(
      DoubleSub(
        DoubleAdd(DoubleSub(DoubleOf(1, 1), call.result.anomalyScore), OcrBonus(call)),
        DoubleTimes(CountSeverity(call.result.flags, "CRITICAL"), DoubleOf(3, 10))),
      InstitutionBonus(call))

\* C15: the trustIndex of every result is 1 - anomalyScore + ocrBonus - 0.3 * (its
\* number of CRITICAL findings) + institutionBonus, clamped to [0, 1]; ocrBonus is
\* 0.1 above OCR confidence 90 and institutionBonus is 0.1 for a registered
\* issuer with trustScore above 0.8, both 0 otherwise.
C15_TrustIndexFormula ==
    \A c \in Calls :
      c.result.trustIndex
        = (IF DoubleLt(TrustBeforeClamp(c), DoubleOf(0, 1)) THEN DoubleOf(0, 1)
           ELSE IF DoubleGt(TrustBeforeClamp(c), DoubleOf(1, 1)) THEN DoubleOf(1, 1)
           ELSE TrustBeforeClamp(c))

\* every term at work and no clamp: a CRITICAL finding, both bonuses, and a
\* trustIndex strictly between 0 and 1
C15_Witness ==
    \E c \in Calls :
      /\ CountSeverity(c.result.flags, "CRITICAL") = 1
      /\ OcrBonus(c) = DoubleOf(1, 10)
      /\ InstitutionBonus(c) = DoubleOf(1, 10)
      /\ DoubleGt(c.result.trustIndex, DoubleOf(0, 1))
      /\ DoubleLt(c.result.trustIndex, DoubleOf(1, 1))

\* the tiers, from the lowest
TierRank(riskLevel) ==
    CASE riskLevel = "LOW" -> 1 [] riskLevel = "MEDIUM" -> 2
      [] riskLevel = "HIGH" -> 3 [] riskLevel = "CRITICAL" -> 4

\* anomaly scores on both sides of the thresholds: the tenths and their sums
ScoreGrid ==
    LET tenths == {DoubleOf(k, 10) : k \in 0..10}
    IN  tenths \cup {DoubleAdd(a, b) : a \in tenths \ {DoubleOf(0, 1)},
                                       b \in tenths \ {DoubleOf(0, 1)}}

\* C16: the riskLevel of every result is CRITICAL with a CRITICAL finding or
\* anomalyScore > 0.8, otherwise HIGH with more than one HIGH finding or
\* anomalyScore > 0.6, otherwise MEDIUM with anomalyScore > 0.3, otherwise LOW;
\* and for the findings of any result the tier never decreases when the
\* anomalyScore increases.
C16_RiskTier ==
    \A c \in Calls :
      LET critical == CountSeverity(c.result.flags, "CRITICAL")
          high     == CountSeverity(c.result.flags, "HIGH")
          score    == c.result.anomalyScore
      IN  /\ c.result.riskLevel \in {"LOW", "MEDIUM", "HIGH", "CRITICAL"}
          /\ c.result.riskLevel = "CRITICAL"
               <=> (critical >= 1 \/ DoubleGt(score, DoubleOf(8, 10)))
          /\ c.result.riskLevel = "HIGH"
               <=> /\ ~(critical >= 1 \/ DoubleGt(score, DoubleOf(8, 10)))
                   /\ (high > 1 \/ DoubleGt(score, DoubleOf(6, 10)))
          /\ c.result.riskLevel = "MEDIUM"
               <=> /\ ~(critical >= 1 \/ DoubleGt(score, DoubleOf(8, 10)))
                   /\ ~(high > 1 \/ DoubleGt(score, DoubleOf(6, 10)))
                   /\ DoubleGt(score, DoubleOf(3, 10))
          /\ LET tiers == {<<a, TierRank(calculateRiskLevel(a, c.result.flags))>> :
                              a \in ScoreGrid}
             IN  \A x, y \in tiers : ~DoubleGt(x[1], y[1]) => x[2] <= y[2]

\* a result that is MEDIUM by its score alone: no CRITICAL finding, one HIGH
\* finding, and an anomalyScore above 0.3 and not above 0.6
C16_Witness ==
    \E c \in Calls :
      /\ c.result.riskLevel = "MEDIUM"
      /\ CountSeverity(c.result.flags, "HIGH") = 1
      /\ DoubleGt(c.result.anomalyScore, DoubleOf(3, 10))
      /\ ~DoubleGt(c.result.anomalyScore, DoubleOf(6, 10))

\* C17: the confidence of every result (in hundredths) is (90 - 10 * (number of
\* findings) + OCR confidence) / 2 clamped to [0, 100]; it lies within [0, 100]
\* and, for the OCR confidence of the result, never increases with the number of
\* findings.
C17_OverallConfidence ==
    \A c \in Calls :
      LET ocr   == c.submission.ocrResult.confidence
          twice == 90 - 10 * Len(c.result.flags) + ocr
      IN  /\ c.result.confidence
               = (IF twice < 0 THEN 0 ELSE IF twice > 200 THEN 10000 ELSE twice * 50)
          /\ c.result.confidence \in 0..10000
          /\ \A n \in 0..(MaxFindings - 1) :
               calculateConfidence(n + 1, ocr) <= calculateConfidence(n, ocr)

\* the lower clamp at work: so many findings on an unreadable scan that the
\* formula is negative, and a confidence of 0
C17_Witness ==
    \E c \in Calls :
      /\ 90 - 10 * Len(c.result.flags) + c.submission.ocrResult.confidence < 0
      /\ c.result.confidence = 0

\* what the digest is declared to cover: the ordered findings, the two scores,
\* the submission time and the extraction confidence
DigestInputs(call) ==
    << call.result.flags, call.result.anomalyScore, call.result.trustIndex,
       call.submission.timestamp, call.submission.ocrResult.confidence >>

\* C18: two results with the same ordered findings, anomalyScore, trustIndex,
\* submission time and extraction confidence have the same aiHash, whatever the
\* wallet, the fileHash and the history they were computed with, and computing
\* the digest of a result again gives the aiHash it was returned with.
C18_DigestOfDeclaredInputs ==
    \A c \in Calls :
      /\ generateAIHash(c.result.flags, c.result.anomalyScore, c.result.trustIndex,
                        c.submission) = c.result.aiHash
      /\ \A d \in Calls : DigestInputs(c) = DigestInputs(d) => c.result.aiHash = d.result.aiHash

\* two calls of different wallets, for different files and with different
\* histories, whose digest inputs and digests are equal
C18_Witness ==
    \E c \in SeqToSet(log[FirstWallet]) :
      \E w \in Wallets \ {FirstWallet} :
        \E d \in SeqToSet(log[w]) :
          /\ c.submission.fileHash # d.submission.fileHash
          /\ c.fresh # d.fresh
          /\ DigestInputs(c) = DigestInputs(d)
          /\ c.result.aiHash = d.result.aiHash

\* C19: a result without findings has anomalyScore 0, trustIndex 1 and riskLevel
\* LOW, whatever the OCR confidence and the registry; and only a result without
\* findings has anomalyScore 0.
C19_CleanSubmission ==
    \A c \in Calls :
      /\ c.result.flags = <<>> =>
            /\ c.result.anomalyScore = DoubleOf(0, 1)
            /\ c.result.trustIndex = DoubleOf(1, 1)
            /\ c.result.riskLevel = "LOW"
      /\ c.result.anomalyScore = DoubleOf(0, 1) => c.result.flags = <<>>

\* a clean result for a registered, trusted issuer and a sharp scan: both bonuses
\* are clamped away
C19_Witness ==
    \E c \in Calls :
      /\ c.result.flags = <<>>
      /\ OcrBonus(c) = DoubleOf(1, 10)
      /\ InstitutionBonus(c) = DoubleOf(1, 10)
      /\ c.result.trustIndex = DoubleOf(1, 1)

\* C20: with detectAnomalies calls overlapping at their await in any way, also
\* calls for one wallet, the history of every wallet holds at most 20 entries in
\* every state and is the last min(n, 20) of the n submissions recorded for the
\* wallet, in the order the calls were resumed: no recorded entry is lost.
C20_AtomicHistoryUnderConcurrency ==
    \A w \in Wallets :
      /\ Len(Stored(w)) <= 20
      /\ Len(Stored(w)) = Min(Len(log[w]), 20)
      /\ \A k \in 1..Len(Stored(w)) :
           Stored(w)[k] = log[w][Len(log[w]) - Len(Stored(w)) + k].submission

\* all calls completed, more than 20 for the first wallet, two of them past the
\* 20th resumed in the order opposite to the one they began in
C20_Witness ==
    /\ suspended = <<>>
    /\ Len(log[FirstWallet]) > 20
    /\ Len(Stored(FirstWallet)) = 20
    /\ \E i \in 20..(Len(log[FirstWallet]) - 1) :
         /\ log[FirstWallet][i + 1].submission.fileHash # 0
         /\ log[FirstWallet][i].submission.fileHash
              > log[FirstWallet][i + 1].submission.fileHash

\* C21: detectAnomalies never raises an error: for every well-typed submission
\* (any text, absent extracted fields, any issue date string, any Date as
\* timestamp, any OCR confidence) the call returns a result and the submission is
\* recorded in the history of its wallet.
C21_ScoringNeverAborts ==
    /\ rejected = <<>>
    /\ \A w \in Wallets : \A i \in 1..Len(log[w]) :
         \E k \in 1..Len(Stored(w)) : Stored(w)[k] = log[w][i].submission

Severities == {"LOW", "MEDIUM", "HIGH", "CRITICAL"}

FlagTypes == {"FRAUD", "TAMPERING", "INCONSISTENCY", "FORMAT", "DUPLICATE",
              "SUSPICIOUS_PATTERN"}

LowOcrFindings(call) == Described(call, "Low OCR confidence")

\* C22: for an OCR confidence within 0..100, every finding of a result has a
\* confidence within [0, 1], a severity among LOW, MEDIUM, HIGH, CRITICAL and a
\* type among the six types; the low-OCR finding is emitted exactly when the OCR
\* confidence is below 70, once, with confidence (70 - ocrConfidence) / 70.
C22_FindingsWellFormed ==
    \A c \in Calls :
      LET ocr   == c.submission.ocrResult.confidence
          flags == c.result.flags
          low   == LowOcrFindings(c)
      IN  ocr \in 0..100 =>
            /\ \A i \in 1..Len(flags) :
                 /\ flags[i].confidence[2] > 0
                 /\ flags[i].confidence[1] >= 0
                 /\ flags[i].confidence[1] <= flags[i].confidence[2]
                 /\ flags[i].severity \in Severities
                 /\ flags[i].type \in FlagTypes
            /\ IF ocr < 70
                 THEN /\ Len(low) = 1
                      /\ low[1].confidence[1] * 70 = (70 - ocr) * low[1].confidence[2]
                 ELSE low = <<>>

\* a result with the low-OCR finding at confidence 1 (OCR confidence 0), a
\* CRITICAL finding and a repetition finding at the cap 0.9
C22_Witness ==
    \E c \in Calls :
      /\ c.submission.ocrResult.confidence = 0
      /\ Len(LowOcrFindings(c)) = 1
      /\ LowOcrFindings(c)[1].confidence = <<1, 1>>
      /\ HasFlag(c.result.flags, "DUPLICATE", "CRITICAL", <<1, 1>>)
      /\ HasFlag(c.result.flags, "SUSPICIOUS_PATTERN", "MEDIUM", <<9, 10>>)
      /\ HasFlag(c.result.flags, "FORMAT", "LOW", <<1, 2>>)

TypeCount(flags, type) == Cardinality({i \in 1..Len(flags) : flags[i].type = type})

\* the findings of a result that the e-th evaluator emitted
EvaluatorCount(flags, e) ==
    Cardinality({i \in 1..Len(flags) : EmissionRank(flags[i]) \div 100 = e})

SameTypeCounts(c1, c2) ==
    \A t \in FlagTypes : TypeCount(c1.result.flags, t) = TypeCount(c2.result.flags, t)

SameEvaluatorCounts(c1, c2) ==
    \A e \in 1..8 : EvaluatorCount(c1.result.flags, e) = EvaluatorCount(c2.result.flags, e)

\* 0 + n1 * 0.15 + n2 * 0.2 + n3 * 0.1 + n4 * 0.25 + n5 * 0.1 + n6 * 0.15 + n7 * 0.2
\* + n8 * 0.1, added in this order, then capped at 1
ScoreOfEvaluatorCounts(flags) ==
    LET weight == [e \in 1..8 |->
                     CASE e \in {1, 6} -> DoubleOf(15, 100)
                       [] e \in {2, 7} -> DoubleOf(2, 10)
                       [] e = 4 -> DoubleOf(25, 100)
                       [] OTHER -> DoubleOf(1, 10)]
        sum[e \in 0..8] ==
            IF e = 0 THEN DoubleOf(0, 1)
            ELSE DoubleAdd(sum[e - 1], DoubleTimes(EvaluatorCount(flags, e), weight[e]))
    IN  DoubleMin(DoubleOf(1, 1), sum[8])

\* C23 as stated: the anomaly score is a sum of weights that depend only on the
\* type of each finding, so two results with the same number of findings of
\* each type have the same anomalyScore.
C23_WeightByType ==
    \A c1, c2 \in Calls : SameTypeCounts(c1, c2) => c1.result.anomalyScore = c2.result.anomalyScore

\* C23, amended: the weight of a finding depends only on the evaluator that
\* emitted it: the anomaly score is the sum, in evaluator order and capped at 1,
\* of count times weight per evaluator, so two results with the same number of
\* findings of each evaluator have the same anomalyScore.
C23_WeightByEvaluator ==
    /\ \A c \in Calls : c.result.anomalyScore = ScoreOfEvaluatorCounts(c.result.flags)
    /\ \A c1, c2 \in Calls :
         SameEvaluatorCounts(c1, c2) => c1.result.anomalyScore = c2.result.anomalyScore

\* two results with one FRAUD finding each and nothing else, one from the
\* forgery patterns (score 0.25) and one from the institution check (score 0.2)
C23_Witness ==
    \E c1, c2 \in Calls :
      /\ SameTypeCounts(c1, c2)
      /\ Len(c1.result.flags) = 1 /\ Len(c2.result.flags) = 1
      /\ EvaluatorCount(c1.result.flags, 4) = 1
      /\ EvaluatorCount(c2.result.flags, 7) = 1
      /\ c1.result.anomalyScore = DoubleOf(25, 100)
      /\ c2.result.anomalyScore = DoubleOf(2, 10)

\* the positions where a white-space separated token of the text starts, the
\* token that starts there, and the number of tokens that are w in lower case
TokenStarts(text) ==
    {i \in 1..Len(text) : ~IsSpace(text[i]) /\ (i = 1 \/ IsSpace(text[i - 1]))}

TokenAt(text, i) ==
    SubSeq(text, i, CHOOSE e \in i..Len(text) :
                      /\ \A j \in i..e : ~IsSpace(text[j])
                      /\ (e = Len(text) \/ IsSpace(text[e + 1])))

TokenCount(text, w) ==
    Cardinality({i \in TokenStarts(text) : toLowerCase(TokenAt(text, i)) = w})

RepeatedTokens(text) ==
    {w \in {toLowerCase(TokenAt(text, i)) : i \in TokenStarts(text)} :
       Len(w) > 4 /\ TokenCount(text, w) > 5}

\* the FRAUD and SUSPICIOUS_PATTERN findings of a result, but for the one of the
\* institution check
PatternFindings(call) ==
    SelectSeq(call.result.flags,
              LAMBDA f : /\ f.type \in {"FRAUD", "SUSPICIOUS_PATTERN"}
                         /\ f.description[1] # "Issuer wallet authorized for")

\* C24: the forgery evaluator emits one HIGH FRAUD finding with confidence 0.8
\* for each keyword of the list that occurs in the lower-cased text, in list
\* order, then one MEDIUM SUSPICIOUS_PATTERN finding with confidence
\* min(0.9, count / 10) for each distinct lower-cased token longer than 4 that
\* occurs more than 5 times, and nothing else.
C24_ForgeryPatternFindings ==
    \A c \in Calls :
      LET text    == c.submission.ocrResult.text
          matched == SelectSeq(suspiciousPatterns,
                               LAMBDA pattern : includes(toLowerCase(text), pattern))
          k       == Len(matched)
          found   == PatternFindings(c)
      IN  /\ Len(found) = k + Cardinality(RepeatedTokens(text))
          /\ \A n \in 1..k :
               found[n] = Flag("FRAUD", "HIGH", <<"Suspicious keyword detected", matched[n]>>,
                               Frac(8, 10))
          /\ \A w \in RepeatedTokens(text) :
               \E n \in (k + 1)..Len(found) :
                 /\ found[n].type = "SUSPICIOUS_PATTERN"
                 /\ found[n].severity = "MEDIUM"
                 /\ found[n].description[2] = w
                 /\ found[n].confidence = Frac(Min(9, TokenCount(text, w)), 10)

\* the step completes a call for wallet w
Completes(w) == log'[w] # log[w]

\* C25: a step that completes a detectAnomalies call appends the scored
\* submission, and nothing else, to the history of the submission's wallet (the
\* oldest entry leaving a full history), after the evaluators have run on the
\* history without it, and changes no other history and no profile; no other
\* step of a call changes a history; registerInstitution sets the profile of one
\* wallet and changes no history.
C25_FrameOfScoring ==
    [][ /\ Cardinality({w \in Wallets : Completes(w)}) <= 1
        /\ \A w \in Wallets :
             IF Completes(w)
               THEN LET entry == log'[w][Len(log'[w])]
                    IN  /\ log'[w] = Append(log[w], entry)
                        /\ entry.submission.walletAddress = w
                        /\ Stored(w)' = LastOf(Append(Stored(w), entry.submission), 20)
                        /\ CriticalDuplicate(entry) =>
                             \E k \in 1..Len(log[w]) :
                               log[w][k].submission.fileHash = entry.submission.fileHash
                        /\ institutionProfiles' = institutionProfiles
               ELSE Stored(w)' = Stored(w)
        /\ institutionProfiles' # institutionProfiles =>
             /\ recentSubmissions' = recentSubmissions
             /\ \E wallet \in DOMAIN institutionProfiles' :
                  /\ DOMAIN institutionProfiles' = DOMAIN institutionProfiles \cup {wallet}
                  /\ \A other \in DOMAIN institutionProfiles \ {wallet} :
                       institutionProfiles'[other] = institutionProfiles[other]
      ]_vars

\* both wallets have a history, a call of the first wallet is waiting at its
\* await after another one completed, and the profile of the issuer was replaced
C25_Witness ==
    /\ \A w \in Wallets : Len(Stored(w)) >= 1
    /\ Len(Stored(FirstWallet)) >= 2
    /\ \E i \in 1..Len(suspended) : suspended[i].submission.walletAddress = FirstWallet
    /\ MapHas(institutionProfiles, IssuerWallet)
    /\ \E c \in Calls :
         /\ MapHas(c.profiles, IssuerWallet)
         /\ c.profiles[IssuerWallet] # institutionProfiles[IssuerWallet]

\* the entries of a history, in its order, stamped after the cutoff
NewerThan(history, cutoff) ==
    LET newer == {i \in 1..Len(history) : history[i].timestamp > cutoff}
        nth(k) == CHOOSE i \in newer : Cardinality({j \in newer : j < i}) = k - 1
    IN  [k \in 1..Cardinality(newer) |-> history[nth(k)]]

\* C26: right after AIService.cleanup(maxAge) no history holds an entry stamped
\* at or before now - maxAge, no wallet is mapped to an empty history, every
\* wallet's history is the entries it held that are newer than the cutoff, in
\* their order, and nothing else; a second cleanup at the same time with the
\* same maxAge changes nothing.
C26_RetentionSweep ==
    swept.last =>
      LET cutoff == now - swept.maxAge
      IN  /\ \A w \in DOMAIN legacySubmissions :
               /\ legacySubmissions[w] # <<>>
               /\ \A i \in 1..Len(legacySubmissions[w]) :
                    legacySubmissions[w][i].timestamp > cutoff
          /\ DOMAIN legacySubmissions \subseteq DOMAIN swept.before
          /\ \A w \in DOMAIN swept.before :
               LET newer == NewerThan(swept.before[w], cutoff)
               IN  IF newer = <<>> THEN w \notin DOMAIN legacySubmissions
                   ELSE w \in DOMAIN legacySubmissions /\ legacySubmissions[w] = newer
          /\ swept.repeated => legacySubmissions = swept.before

\* a cleanup that removed a whole history (its last entry stamped exactly at the
\* cutoff), and from another history an older entry stored after a newer one
C26_Witness ==
    /\ swept.last
    /\ \E w \in DOMAIN swept.before :
         /\ w \notin DOMAIN legacySubmissions
         /\ \E i \in 1..Len(swept.before[w]) :
              swept.before[w][i].timestamp = now - swept.maxAge
    /\ \E w \in DOMAIN legacySubmissions :
         /\ Len(legacySubmissions[w]) < Len(swept.before[w])
         /\ \E i \in 1..(Len(swept.before[w]) - 1) :
              swept.before[w][i].timestamp > swept.before[w][i + 1].timestamp

\* the call was stamped within the 30-minute window before the moment it completed
StampedInWindow(call) == call.submission.timestamp > call.at - TimeWindow

\* C27: of two detectAnomalies calls for the same wallet and the same fileHash,
\* both stamped within the window, overlapping in any way at the await, at
\* least one returns the CRITICAL DUPLICATE finding.
C27_DuplicateUnderOverlap ==
    \A w \in Wallets : \A i, j \in 1..Len(log[w]) :
      (/\ i < j
       /\ log[w][i].submission.fileHash = log[w][j].submission.fileHash
       /\ StampedInWindow(log[w][i])
       /\ StampedInWindow(log[w][j]))
        => CriticalDuplicate(log[w][i]) \/ CriticalDuplicate(log[w][j])

\* C28: a result with at least one CRITICAL finding has riskLevel CRITICAL and a
\* trustIndex of at most 0.75, whatever the OCR confidence and the trustScore of
\* the registered institution.
C28_CriticalGatesTrust ==
    \A c \in Calls :
      CountSeverity(c.result.flags, "CRITICAL") >= 1 =>
        /\ c.result.riskLevel = "CRITICAL"
        /\ ~DoubleGt(c.result.trustIndex, DoubleOf(75, 100))

\* the most trusted result with a CRITICAL finding: the duplicate of a clean
\* document, read with an OCR confidence above 90, from an institution trusted
\* above 0.8; its trustIndex is 1 - 0.15 + 0.1 - 0.3 + 0.1, just below 0.75
C28_Witness ==
    \E c \in Calls :
      /\ Len(c.result.flags) = 1
      /\ CriticalDuplicate(c)
      /\ c.submission.ocrResult.confidence > 90
      /\ MapHas(c.profiles, c.submission.issuerWallet)
      /\ DoubleGt(c.profiles[c.submission.issuerWallet].trustScore, DoubleOf(8, 10))
      /\ DoubleGt(c.result.trustIndex, DoubleOf(74, 100))
      /\ DoubleLt(c.result.trustIndex, DoubleOf(75, 100))
      /\ c.result.riskLevel = "CRITICAL"

C30_StoreAfterIssuance ==
    /\ \A id \in DOMAIN certificates :
         certificates[id].route = "issue" =>
           /\ MapHas(chain, id)
           /\ chain[id].tx = TxOf(id)
           /\ certificates[id].txHash = chain[id].tx
    /\ (/\ response.route = "issue"
        /\ response.status # 400
        /\ ~response.blockchainResult.success) =>
           /\ response.status = 500
           /\ \/ ~MapHas(certificates, response.id)
              \/ certificates[response.id].route # "issue"

\* a row stored after a successful issuance, and a later request whose
\* issuance was rejected by the contract
C30_Witness ==
    /\ response.route = "issue"
    /\ response.status = 500
    /\ ~response.blockchainResult.success
    /\ ~MapHas(chain, response.id)
    /\ \E id \in DOMAIN certificates :
         /\ certificates[id].route = "issue"
         /\ certificates[id].txHash = TxOf(id)

====
